---- MODULE Spec2Model ----
(***************************************************************************)
(* Model of the 486tang host tools: the UART frame codec, the PS/2 mouse   *)
(* device emulation, the session loop's inbound path and the keyboard and  *)
(* mouse encoders of tools/486tang.py; the image composer and the geometry *)
(* inference of tools/mksdcard.py.                                         *)
(***************************************************************************)
EXTENDS Integers, Sequences, FiniteSets, TLC

VARIABLES
    \* ---- MouseDeviceState: the nonlocals of run_interactive (lines 193-196)
    ps2_id,             \* 0x00 basic mouse, 0x03 after 200-100-80
    rate_seq,           \* the sample rates received, at most the last three
    expect_value_for,   \* "None", "F3" or "E8"
    streaming_enabled,
    \* ---- UART frame reader (lines 262-265)
    rx_buf,
    rx_state,           \* "SEEK" or "HAVE"
    rx_len,
    rx_payload,
    \* ---- what the latest step did
    data,               \* the bytes its ser.read returned
    written,            \* the ser.write calls it made, in order (each a byte sequence)
    emitted,            \* the frames it dispatched, in order: [rtype, body]
    disp,               \* one entry per byte handed to on_host_to_mouse_byte
    \* ---- the transport and the history of a codec scenario
    wire,               \* bytes the device has sent and the host has not read yet
    sent,               \* what the device sent: [garbage, frames]
    decoded,            \* every frame dispatched since the scenario began
    bytewise,           \* every read so far returned a single byte
    \* ---- observers of the inbound command stream (history variables)
    obs,
    probe,              \* "warm", "probed" or "done": the progress of a probe
    \* ---- arguments and result of the function under test
    enc_in,
    enc_out,
    \* ---- the output file of the image composer: [exists, extents]
    output_file,
    \* ---- the session loop of run_interactive (lines 267-285)
    pc,                 \* "events": at pygame.event.get(); "poll": at ser.read(256);
                        \* "closed": after ser.close()
    events,             \* the input events pygame has queued, oldest first
    buttons,            \* bit0 L, bit1 R, bit2 M
    captured,
    running

vars == << ps2_id, rate_seq, expect_value_for, streaming_enabled,
           rx_buf, rx_state, rx_len, rx_payload,
           data, written, emitted, disp, wire, sent, decoded, bytewise,
           obs, probe, enc_in, enc_out, output_file,
           pc, events, buttons, captured, running >>

sessionVars == << ps2_id, rate_seq, expect_value_for, streaming_enabled,
                  rx_buf, rx_state, rx_len, rx_payload,
                  data, written, emitted, disp >>
codecVars == << wire, sent, decoded, bytewise >>
encVars == << enc_in, enc_out >>
loopVars == << pc, events, buttons, captured, running >>

(***************************************************************************)
(* Program constants                                                       *)
(***************************************************************************)
CMD_PS2_SCANCODE == 12
CMD_PS2_MOUSE == 14
MARKER == 170
MAX_FRAME_LEN == 2047
RTYPE_HOST_TO_MOUSE == 6
RTYPE_DEBUG == 7
READ_SIZE == 256

Byte == 0..255

\* seq without its first n elements: Python's del seq[:n]
Drop(seq, n) == SubSeq(seq, n + 1, Len(seq))

\* seq[-n:] of Python, for n > 0
LastN(seq, n) == IF Len(seq) > n THEN SubSeq(seq, Len(seq) - n + 1, Len(seq)) ELSE seq

Fill(n, b) == [i \in 1..n |-> b]

(***************************************************************************)
(* Frame encode: frame, build_scancode_frame, build_mouse_frame            *)
(***************************************************************************)
\* A faulty variant of frame: the length limit is off by one (>= instead of >).
frame_limit_off_by_one(payload) ==
    LET length == Len(payload) IN
    IF length >= MAX_FRAME_LEN
    THEN [ok |-> FALSE, bytes |-> << >>]
    ELSE [ok |-> TRUE,
          bytes |-> << MARKER, (length \div 256) % 256, length % 256 >> \o payload]

\* A faulty variant of frame: the length is written low byte first.
frame_little_endian(payload) ==
    LET length == Len(payload) IN
    IF length > MAX_FRAME_LEN
    THEN [ok |-> FALSE, bytes |-> << >>]
    ELSE [ok |-> TRUE,
          bytes |-> << MARKER, length % 256, (length \div 256) % 256 >> \o payload]

\* ok = FALSE stands for the ValueError('frame too long') the code raises.
frame(payload) ==
    LET length == Len(payload) IN
    IF length > MAX_FRAME_LEN
    THEN [ok |-> FALSE, bytes |-> << >>]
    ELSE [ok |-> TRUE,
          bytes |-> << MARKER, (length \div 256) % 256, length % 256 >> \o payload]

build_scancode_frame(scancodes) == frame(<< CMD_PS2_SCANCODE >> \o scancodes)

build_mouse_frame(mouse_bytes) == frame(<< CMD_PS2_MOUSE >> \o mouse_bytes)

(***************************************************************************)
(* The session: every local of run_interactive the inbound path touches.   *)
(* The operators below take and return such a record.                      *)
(***************************************************************************)
Session ==
    [ ps2_id |-> ps2_id, rate_seq |-> rate_seq,
      expect_value_for |-> expect_value_for,
      streaming_enabled |-> streaming_enabled,
      rx_buf |-> rx_buf, rx_state |-> rx_state, rx_len |-> rx_len,
      rx_payload |-> rx_payload,
      written |-> written, emitted |-> emitted, disp |-> disp ]

MouseState(s) ==
    [ ps2_id |-> s.ps2_id, rate_seq |-> s.rate_seq,
      expect_value_for |-> s.expect_value_for,
      streaming_enabled |-> s.streaming_enabled ]

\* ser.write(bytes): the bytes go out as one write, after everything written before.
ser_write(s, bytes) == [s EXCEPT !.written = Append(@, bytes)]

\* A faulty variant of mouse_reply_byte: the reply is queued in front of the earlier ones.
mouse_reply_byte_reordered(s, b) ==
    [s EXCEPT !.written = << build_mouse_frame(<< b % 256 >>).bytes >> \o @]

\* A faulty variant of mouse_reply_byte: replies are batched into the previous reply frame.
mouse_reply_byte_batched(s, b) ==
    IF s.written = << >>
    THEN ser_write(s, build_mouse_frame(<< b % 256 >>).bytes)
    ELSE LET n == Len(s.written)
             prev == Drop(s.written[n], 4)
         IN [s EXCEPT !.written[n] = build_mouse_frame(Append(prev, b % 256)).bytes]

mouse_reply_byte(s, b) == ser_write(s, build_mouse_frame(<< b % 256 >>).bytes)

(***************************************************************************)
(* on_host_to_mouse_byte                                                   *)
(***************************************************************************)
\* A faulty variant of SampleRateByte: the history is compared before it is cut to its
\* last three values.
SampleRateByte_compares_untrimmed(s, b) ==
    LET s1 == mouse_reply_byte(s, 250)
        appended == Append(s1.rate_seq, b % 256)
        seq == IF Len(appended) > 3 THEN LastN(appended, 3) ELSE appended
    IN [s1 EXCEPT !.rate_seq = seq,
                  !.ps2_id = IF appended = << 200, 100, 80 >> THEN 3 ELSE @,
                  !.expect_value_for = "None"]

\* A faulty variant of SampleRateByte: the device id follows the history, so a rate
\* that breaks the 200,100,80 tail makes the device a basic mouse again.
SampleRateByte_undetects(s, b) ==
    LET s1 == mouse_reply_byte(s, 250)
        appended == Append(s1.rate_seq, b % 256)
        seq == IF Len(appended) > 3 THEN LastN(appended, 3) ELSE appended
    IN [s1 EXCEPT !.rate_seq = seq,
                  !.ps2_id = IF seq = << 200, 100, 80 >> THEN 3 ELSE 0,
                  !.expect_value_for = "None"]

\* lines 205-215: the byte is the argument of a Set Sample Rate
SampleRateByte(s, b) ==
    LET s1 == mouse_reply_byte(s, 250)
        appended == Append(s1.rate_seq, b % 256)
        seq == IF Len(appended) > 3 THEN LastN(appended, 3) ELSE appended
    IN [s1 EXCEPT !.rate_seq = seq,
                  !.ps2_id = IF seq = << 200, 100, 80 >> THEN 3 ELSE @,
                  !.expect_value_for = "None"]

\* A faulty variant of ResolutionByte: an argument with the value of Disable or Reset
\* also turns streaming off.
ResolutionByte_disables(s, b) ==
    [mouse_reply_byte(s, 250) EXCEPT
        !.expect_value_for = "None",
        !.streaming_enabled = IF b % 256 \in {245, 255} THEN FALSE ELSE @]

\* lines 216-220: the byte is the argument of a Set Resolution
ResolutionByte(s, b) ==
    [mouse_reply_byte(s, 250) EXCEPT !.expect_value_for = "None"]

\* A faulty variant of ResetCommand: the sample-rate history survives the reset.
ResetCommand_keeps_history(s) ==
    LET s1 == mouse_reply_byte(mouse_reply_byte(mouse_reply_byte(s, 250), 170), 0)
    IN [s1 EXCEPT !.streaming_enabled = FALSE, !.ps2_id = 0]

\* A faulty variant of ResetCommand: the device id survives the reset.
ResetCommand_keeps_id(s) ==
    LET s1 == mouse_reply_byte(mouse_reply_byte(mouse_reply_byte(s, 250), 170), 0)
    IN [s1 EXCEPT !.streaming_enabled = FALSE, !.rate_seq = << >>]

\* lines 224-230
ResetCommand(s) ==
    LET s1 == mouse_reply_byte(mouse_reply_byte(mouse_reply_byte(s, 250), 170), 0)
    IN [s1 EXCEPT !.streaming_enabled = FALSE, !.rate_seq = << >>, !.ps2_id = 0]

\* A faulty variant of CommandByte: the separate branch for Enable (F4) is missing, so
\* F4 falls through to RESEND.
CommandByte_without_F4(s, b) ==
    LET cmd == b % 256 IN
    IF cmd = 255 THEN ResetCommand(s)
    ELSE IF cmd = 242 THEN mouse_reply_byte(mouse_reply_byte(s, 250), s.ps2_id)
    ELSE IF cmd = 243 THEN [mouse_reply_byte(s, 250) EXCEPT !.expect_value_for = "F3"]
    ELSE IF cmd = 232 THEN [mouse_reply_byte(s, 250) EXCEPT !.expect_value_for = "E8"]
    ELSE IF cmd \in {230, 231, 240, 245, 246, 234}
         THEN LET s1 == mouse_reply_byte(s, 250) IN
              IF cmd = 245 THEN [s1 EXCEPT !.streaming_enabled = FALSE]
              ELSE IF cmd \in {234, 244} THEN [s1 EXCEPT !.streaming_enabled = TRUE]
              ELSE s1
    ELSE IF cmd = 233
         THEN mouse_reply_byte(mouse_reply_byte(mouse_reply_byte(
                  mouse_reply_byte(s, 250), 0), 0), 0)
    ELSE mouse_reply_byte(s, 254)

\* lines 222-259: the byte is interpreted as a command
CommandByte(s, b) ==
    LET cmd == b % 256 IN
    IF cmd = 255 THEN ResetCommand(s)
    ELSE IF cmd = 242 THEN mouse_reply_byte(mouse_reply_byte(s, 250), s.ps2_id)
    ELSE IF cmd = 243 THEN [mouse_reply_byte(s, 250) EXCEPT !.expect_value_for = "F3"]
    ELSE IF cmd = 232 THEN [mouse_reply_byte(s, 250) EXCEPT !.expect_value_for = "E8"]
    ELSE IF cmd \in {230, 231, 240, 245, 246, 234}
         THEN LET s1 == mouse_reply_byte(s, 250) IN
              IF cmd = 245 THEN [s1 EXCEPT !.streaming_enabled = FALSE]
              ELSE IF cmd \in {234, 244} THEN [s1 EXCEPT !.streaming_enabled = TRUE]
              ELSE s1
    ELSE IF cmd = 244 THEN [mouse_reply_byte(s, 250) EXCEPT !.streaming_enabled = TRUE]
    ELSE IF cmd = 233
         THEN mouse_reply_byte(mouse_reply_byte(mouse_reply_byte(
                  mouse_reply_byte(s, 250), 0), 0), 0)
    ELSE mouse_reply_byte(s, 254)

\* A faulty variant of on_host_to_mouse_byte: a Reset is recognised before the pending
\* argument is looked at.
on_host_to_mouse_byte_reset_first(s, b) ==
    IF b % 256 = 255 THEN [ResetCommand(s) EXCEPT !.expect_value_for = "None"]
    ELSE IF s.expect_value_for = "F3" THEN SampleRateByte(s, b)
    ELSE IF s.expect_value_for = "E8" THEN ResolutionByte(s, b)
    ELSE CommandByte(s, b)

\* lines 202-259
on_host_to_mouse_byte(s, b) ==
    IF s.expect_value_for = "F3" THEN SampleRateByte(s, b)
    ELSE IF s.expect_value_for = "E8" THEN ResolutionByte(s, b)
    ELSE CommandByte(s, b)

\* What one call of on_host_to_mouse_byte did, appended to disp: the byte, the
\* device state it met, the writes it made and the device state it left.
Dispatched(s, bb, s1) ==
    [s1 EXCEPT !.disp = Append(@, [ b |-> bb,
                                    pre |-> MouseState(s),
                                    frames |-> Drop(s1.written, Len(s.written)),
                                    post |-> MouseState(s1) ])]

\* lines 362-363: for bb in body: on_host_to_mouse_byte(bb)
RECURSIVE DispatchBody(_, _)
DispatchBody(s, body) ==
    IF body = << >> THEN s
    ELSE DispatchBody(Dispatched(s, Head(body), on_host_to_mouse_byte(s, Head(body))),
                      Tail(body))

(***************************************************************************)
(* The UART frame reader: the parse loop of lines 335-372                  *)
(***************************************************************************)
\* rx_buf.find(b'\xAA'): the 0-based index of the first marker, -1 if none
find(buf, x) ==
    IF \E i \in 1..Len(buf) : buf[i] = x
    THEN (CHOOSE i \in 1..Len(buf) : buf[i] = x /\ \A j \in 1..(i - 1) : buf[j] # x) - 1
    ELSE -1

\* A faulty variant of HaveFrame: the body of a debug frame is handed to the mouse
\* emulator as well.
HaveFrame_dispatches_debug(s) ==
    IF s.rx_payload = << >>
    THEN [s EXCEPT !.rx_state = "SEEK"]
    ELSE LET rtype == s.rx_payload[1]
             body == Tail(s.rx_payload)
             s1 == [s EXCEPT !.emitted = Append(@, [rtype |-> rtype, body |-> body])]
             s2 == IF rtype \in {RTYPE_HOST_TO_MOUSE, RTYPE_DEBUG}
                   THEN DispatchBody(s1, body) ELSE s1
         IN [s2 EXCEPT !.rx_state = "SEEK"]

\* lines 353-372: a frame is in rx_payload
HaveFrame(s) ==
    IF s.rx_payload = << >>
    THEN [s EXCEPT !.rx_state = "SEEK"]
    ELSE LET rtype == s.rx_payload[1]
             body == Tail(s.rx_payload)
             s1 == [s EXCEPT !.emitted = Append(@, [rtype |-> rtype, body |-> body])]
             s2 == IF rtype = RTYPE_HOST_TO_MOUSE THEN DispatchBody(s1, body) ELSE s1
         IN [s2 EXCEPT !.rx_state = "SEEK"]

\* A faulty variant of TakeFrame: once the length is known the reader looks for the next
\* marker inside the payload and cuts the frame there.
TakeFrame_rescans(s) ==
    LET inner == find(SubSeq(s.rx_buf, 4, 3 + s.rx_len), MARKER)
        n == IF inner < 0 THEN s.rx_len ELSE inner
    IN [s EXCEPT !.rx_payload = SubSeq(s.rx_buf, 4, 3 + n),
                 !.rx_buf = Drop(@, 3 + n),
                 !.rx_state = "HAVE"]

\* lines 350-352
TakeFrame(s) ==
    [s EXCEPT !.rx_payload = SubSeq(s.rx_buf, 4, 3 + s.rx_len),
              !.rx_buf = Drop(@, 3 + s.rx_len),
              !.rx_state = "HAVE"]

\* A faulty variant of SkipToMarker: bytes before the marker are kept in the buffer.
SkipToMarker_keeps(s, idx) == s

\* lines 342-343
SkipToMarker(s, idx) == IF idx > 0 THEN [s EXCEPT !.rx_buf = Drop(@, idx)] ELSE s

\* line 344: if len(rx_buf) < 4: break
HeaderReady(s) == Len(s.rx_buf) >= 4

\* line 346
ReadLength(s) == [s EXCEPT !.rx_len = s.rx_buf[2] * 256 + s.rx_buf[3]]

RECURSIVE ParseLoop(_)

\* lines 348-352, then the HAVE branch and the next turn of the loop
AfterLength(s) ==
    IF Len(s.rx_buf) < 3 + s.rx_len THEN s ELSE ParseLoop(HaveFrame(TakeFrame(s)))

\* lines 344-346
AfterSkip(s) == IF ~HeaderReady(s) THEN s ELSE AfterLength(ReadLength(s))

\* lines 338-343
Seek(s, idx) ==
    IF idx < 0 THEN [s EXCEPT !.rx_buf = << >>] ELSE AfterSkip(SkipToMarker(s, idx))

\* lines 335-372: while True, left by the breaks of the SEEK branch
ParseLoop(s) ==
    IF s.rx_state = "SEEK" THEN Seek(s, find(s.rx_buf, MARKER))
    ELSE ParseLoop(HaveFrame(s))

\* lines 329-372: one ser.read(256) that returned data, and the parse of the buffer
OnData(s, d) ==
    ParseLoop([s EXCEPT !.rx_buf = @ \o d,
                        !.written = << >>, !.emitted = << >>, !.disp = << >>])

\* The action of reading d off the transport: the session after it.
Poll(d) ==
    \E s \in {OnData(Session, d)} :
    /\ data' = d
    /\ ps2_id' = s.ps2_id
    /\ rate_seq' = s.rate_seq
    /\ expect_value_for' = s.expect_value_for
    /\ streaming_enabled' = s.streaming_enabled
    /\ rx_buf' = s.rx_buf
    /\ rx_state' = s.rx_state
    /\ rx_len' = s.rx_len
    /\ rx_payload' = s.rx_payload
    /\ written' = s.written
    /\ emitted' = s.emitted
    /\ disp' = s.disp

\* The state after construction: lines 193-196 and 262-265, nothing written yet.
InitSession ==
    /\ ps2_id = 0
    /\ rate_seq = << >>
    /\ expect_value_for = "None"
    /\ streaming_enabled = FALSE
    /\ rx_buf = << >>
    /\ rx_state = "SEEK"
    /\ rx_len = 0
    /\ rx_payload = << >>
    /\ data = << >>
    /\ written = << >>
    /\ emitted = << >>
    /\ disp = << >>

NoScenario == [garbage |-> << >>, frames |-> << >>]
NoObs == [magic |-> 0, rates |-> << >>, run |-> << >>, seen |-> FALSE, strict |-> FALSE]
NoEnc == [op |-> "none", ok |-> TRUE, bytes |-> << >>]

\* The variables a specification does not use keep these values.
IdleCodec == wire = << >> /\ sent = NoScenario /\ decoded = << >>
             /\ bytewise = TRUE
IdleObs == obs = NoObs /\ probe = "warm"
NoFile == [exists |-> FALSE, extents |-> << >>]
IdleEnc == enc_in = << >> /\ enc_out = NoEnc /\ output_file = NoFile
\* lines 267-283: the session loop before its first iteration
IdleLoop == pc = "events" /\ events = << >> /\ buttons = 0 /\ captured = FALSE
            /\ running = TRUE

(***************************************************************************)
(* Observers of the inbound command stream.  They are history variables:   *)
(* they read what was dispatched and take no part in the program's state.  *)
(*   rates  - the Set Sample Rate arguments received since the last Reset, *)
(*            at most the last three                                       *)
(*   run    - the arguments of the trailing run of Set Sample Rate         *)
(*            commands that no other command interrupts, at most three     *)
(*   seen   - rates has been 200,100,80 since the last Reset               *)
(*   strict - run has been 200,100,80 since the last Reset                 *)
(*   magic  - how many bytes of MagicScript have just been received        *)
(* run is cleared by a command the device knows; a byte it answers with    *)
(* RESEND is not counted as a command that came between.                   *)
(***************************************************************************)
IsReset(e) == e.pre.expect_value_for = "None" /\ e.b = 255

\* The commands the device knows, Set Sample Rate aside.
OtherCommands == {255, 242, 232, 244, 245, 230, 231, 240, 246, 234, 233}

ObserveByte(o, e) ==
    LET isArg == e.pre.expect_value_for = "F3"
        isCmd == e.pre.expect_value_for = "None"
        rates1 == IF isArg THEN LastN(Append(o.rates, e.b), 3)
                  ELSE IF IsReset(e) THEN << >> ELSE o.rates
        run1 == IF isArg THEN LastN(Append(o.run, e.b), 3)
                ELSE IF isCmd /\ e.b \in OtherCommands THEN << >> ELSE o.run
    IN [o EXCEPT !.rates = rates1,
                 !.run = run1,
                 !.seen = IF IsReset(e) THEN FALSE
                          ELSE @ \/ (isArg /\ rates1 = << 200, 100, 80 >>),
                 !.strict = IF IsReset(e) THEN FALSE
                            ELSE @ \/ (isArg /\ run1 = << 200, 100, 80 >>)]

RECURSIVE ObserveAll(_, _)
ObserveAll(o, entries) ==
    IF entries = << >> THEN o
    ELSE ObserveAll(ObserveByte(o, Head(entries)), Tail(entries))

(***************************************************************************)
(* Spec: the session loop receiving host-to-mouse frames.  The device      *)
(* forwards the bytes the guest's PS/2 controller sends to the mouse, one  *)
(* or two per type-0x06 frame.                                             *)
(***************************************************************************)
\* The bytes the guest sends: Reset, Get ID, Set Sample Rate, Set Resolution,
\* Enable, and the rates 200, 100, 80.
InboundBytes == {255, 242, 243, 232, 244, 200, 100, 80}

\* The sample rates the guest sets: those of the handshake, and one whose value
\* is also that of a command (Reset).
SampleRates == {200, 100, 80, 255}

\* A frame carries one byte, or a Set Sample Rate together with its argument.
InboundBodies ==
    {<< b >> : b \in InboundBytes} \cup {<< 243, a >> : a \in SampleRates}

\* The IntelliMouse detection handshake followed by Get ID.
MagicScript == << 243, 200, 243, 100, 243, 80, 242 >>

HostToMouseFrame(body) == frame(<< RTYPE_HOST_TO_MOUSE >> \o body).bytes

RecvHostToMouse(body) ==
    /\ expect_value_for = "F3" => body[1] \in SampleRates
    /\ Poll(HostToMouseFrame(body))
    /\ obs' = [ObserveAll(obs, disp') EXCEPT !.magic = 0]
    /\ UNCHANGED << codecVars, probe, encVars, output_file, loopVars >>

\* The guest runs the handshake: the next n bytes of it arrive in one frame.  It
\* begins while the emulator is Idle.
RecvMagic(n) ==
    /\ obs.magic + n <= Len(MagicScript)
    /\ obs.magic = 0 => expect_value_for = "None"
    /\ Poll(HostToMouseFrame(SubSeq(MagicScript, obs.magic + 1, obs.magic + n)))
    /\ obs' = [ObserveAll(obs, disp') EXCEPT !.magic = @ + n]
    /\ UNCHANGED << codecVars, probe, encVars, output_file, loopVars >>

Init == InitSession /\ IdleCodec /\ IdleObs /\ IdleEnc /\ IdleLoop

Next ==
    \/ \E body \in InboundBodies : RecvHostToMouse(body)
    \/ \E n \in 1..2 : RecvMagic(n)

Spec == Init /\ [][Next]_vars

(***************************************************************************)
(* Claims about the mouse device emulation, under Spec                     *)
(***************************************************************************)
\* The frame that carries the reply byte r: AA 00 02 0E r.
ReplyFrame(r) == << MARKER, 0, 2, CMD_PS2_MOUSE, r >>

ReplyFrames(replies) == [j \in DOMAIN replies |-> ReplyFrame(replies[j])]

\* The command table of the PS/2 mouse device: the reply bytes to byte b, met
\* with the pending command `pending` and the device id `id`.
TableReplies(pending, b, id) ==
    IF pending # "None" THEN << 250 >>
    ELSE IF b = 255 THEN << 250, 170, 0 >>
    ELSE IF b = 242 THEN << 250, id >>
    ELSE IF b = 233 THEN << 250, 0, 0, 0 >>
    ELSE IF b \in {243, 232, 244, 245, 230, 231, 240, 246, 234} THEN << 250 >>
    ELSE << 254 >>

LastDisp == disp[Len(disp)]

\* C2: IntelliMouse detection.  Starting from Idle with any prior sample-rate
\* history, once the bytes F3,200,F3,100,F3,80 have been received in sequence the
\* device id is 0x03, and a Get ID (F2) that follows is answered FA then 03.
C2_IntelliMouseDetection ==
    /\ obs.magic >= 6 => ps2_id = 3
    /\ obs.magic = 7 =>
          /\ disp # << >>
          /\ LastDisp.b = 242
          /\ LastDisp.frames = << ReplyFrame(250), ReplyFrame(3) >>

\* The handshake and Get ID have been received after an earlier Enable (F4), and
\* the reply FA,03 has been written.
C2_Witness ==
    /\ obs.magic = 7
    /\ streaming_enabled
    /\ LastDisp.pre.ps2_id = 3
    /\ Len(written) >= 2
    /\ SubSeq(written, Len(written) - 1, Len(written))
          = << ReplyFrame(250), ReplyFrame(3) >>

\* C3 as stated: the device id is 0x03 only if 200, 100, 80 were received by
\* three consecutive F3 commands with no other command between them (since the
\* last reset), and 0x00 otherwise.
C3_Original == ps2_id = IF obs.strict THEN 3 ELSE 0

\* C3 as amended: from a fresh or reset state the device id is 0x03 exactly when
\* the three most recent Set Sample Rate arguments received since the last Reset
\* have at some point been 200, 100, 80 in that order, whether or not other
\* commands came between those Set Sample Rate commands; otherwise it is 0x00.
C3_Detection == ps2_id = IF obs.seen THEN 3 ELSE 0

\* The id is 0x03 although a command other than F3 came between the three rates.
C3_Witness == ps2_id = 3 /\ obs.seen /\ ~obs.strict

\* C5: a Reset (FF) processed as a command in Idle replies FA, AA, 00 and leaves
\* device id 0x00, an empty sample-rate history, streaming off and state Idle,
\* whatever the state was before.
C5_Reset ==
    \A i \in DOMAIN disp :
        IsReset(disp[i]) =>
            /\ disp[i].frames = ReplyFrames(<< 250, 170, 0 >>)
            /\ disp[i].post = [ ps2_id |-> 0, rate_seq |-> << >>,
                                expect_value_for |-> "None",
                                streaming_enabled |-> FALSE ]
            /\ i = Len(disp) =>
                  /\ ps2_id = 0 /\ rate_seq = << >>
                  /\ expect_value_for = "None" /\ ~streaming_enabled

\* A Reset has met a detected IntelliMouse with streaming on, or a handshake that
\* was two rates in.
C5_Witness ==
    \E i \in DOMAIN disp :
        /\ IsReset(disp[i])
        /\ disp[i].pre.ps2_id = 3
        /\ disp[i].pre.streaming_enabled
        /\ disp[i].pre.rate_seq # << >>

\* The frames written for the entries of d, in order.
RECURSIVE TableFrames(_)
TableFrames(d) ==
    IF d = << >> THEN << >>
    ELSE ReplyFrames(TableReplies(Head(d).pre.expect_value_for, Head(d).b,
                                  Head(d).pre.ps2_id))
             \o TableFrames(Tail(d))

\* C7: every reply byte is written as its own 5-byte frame AA 00 02 0E b; the
\* frames are written in the order the replies are generated, the replies to one
\* inbound byte before the next inbound byte is processed, and the inbound bytes
\* are processed in arrival order.
C7_ReplyFraming ==
    /\ \A i \in DOMAIN written :
          /\ Len(written[i]) = 5
          /\ SubSeq(written[i], 1, 4) = << MARKER, 0, 2, CMD_PS2_MOUSE >>
    /\ written = TableFrames(disp)
    /\ data # << >> => [i \in DOMAIN disp |-> disp[i].b] = Drop(data, 4)
    /\ \A i \in DOMAIN disp :
          /\ disp[i].frames # << >>
          /\ i > 1 => disp[i].pre = disp[i - 1].post
    /\ disp # << >> => LastDisp.post = MouseState(Session)

\* One frame brought the last rate of the handshake and Get ID: three reply
\* frames were written, FA for the rate, then FA and 03 for Get ID.
C7_Witness ==
    /\ Len(disp) = 2
    /\ disp[2].b = 242
    /\ written = ReplyFrames(<< 250, 250, 3 >>)

(***************************************************************************)
(* SpecCmd: the emulator probed with every byte value.  The guest first    *)
(* brings the device into some state with a few commands (the warm-up),    *)
(* then sends one byte of any value as a command and, when that command    *)
(* takes an argument, one byte of any value as its argument.  The probe    *)
(* ends there: the bytes 0..255 are tried one at a time, not in sequences. *)
(***************************************************************************)
\* The warm-up: Set Sample Rate and Enable, and as rates those of the handshake
\* in their order, so that the probe meets the device before, during and after
\* the detection, with streaming on or off.
WarmCommands == {243, 244}

Handshake == << 200, 100, 80 >>

WarmCommand(b) ==
    /\ probe = "warm"
    /\ expect_value_for = "None"
    /\ Poll(HostToMouseFrame(<< b >>))
    /\ UNCHANGED << codecVars, obs, probe, encVars, output_file, loopVars >>

WarmRate ==
    /\ probe = "warm"
    /\ expect_value_for = "F3"
    /\ Len(rate_seq) < Len(Handshake)
    /\ Poll(HostToMouseFrame(<< Handshake[Len(rate_seq) + 1] >>))
    /\ UNCHANGED << codecVars, obs, probe, encVars, output_file, loopVars >>

\* Any byte, received while the emulator is Idle.
ProbeCommand(b) ==
    /\ probe = "warm"
    /\ expect_value_for = "None"
    /\ Poll(HostToMouseFrame(<< b >>))
    /\ probe' = IF expect_value_for' = "None" THEN "done" ELSE "probed"
    /\ UNCHANGED << codecVars, obs, encVars, output_file, loopVars >>

\* Any byte, received in a later frame while a command awaits its argument.
ProbeArgument(b) ==
    /\ probe \in {"warm", "probed"}
    /\ expect_value_for # "None"
    /\ Poll(HostToMouseFrame(<< b >>))
    /\ probe' = "done"
    /\ UNCHANGED << codecVars, obs, encVars, output_file, loopVars >>

\* A command that takes an argument, and any byte as its argument, in one frame.
ProbeBoth(c, a) ==
    /\ probe = "warm"
    /\ expect_value_for = "None"
    /\ Poll(HostToMouseFrame(<< c, a >>))
    /\ probe' = "done"
    /\ UNCHANGED << codecVars, obs, encVars, output_file, loopVars >>

NextCmd ==
    \/ \E b \in WarmCommands : WarmCommand(b)
    \/ WarmRate
    \/ \E b \in Byte : ProbeCommand(b)
    \/ \E b \in Byte : ProbeArgument(b)
    \/ \E c \in {243, 232}, a \in Byte : ProbeBoth(c, a)

SpecCmd == Init /\ [][NextCmd]_vars

\* The command table as the documentation of the device gives it.
CommandTable(b, id) ==
    CASE b = 255 -> << 250, 170, 0 >>
      [] b = 242 -> << 250, id >>
      [] b = 233 -> << 250, 0, 0, 0 >>
      [] b \in {243, 232, 244, 245, 230, 231, 240, 246, 234} -> << 250 >>
      [] OTHER -> << 254 >>

\* C4: for every byte value 0..255 received as a command in Idle the reply
\* bytes are those of the command table; a byte that is no command is answered
\* FE and changes nothing, the state staying Idle.
C4_CommandTable ==
    \A i \in DOMAIN disp :
        LET e == disp[i] IN
        e.pre.expect_value_for = "None" =>
            /\ e.frames = ReplyFrames(CommandTable(e.b, e.pre.ps2_id))
            /\ e.frames = << ReplyFrame(254) >> => e.post = e.pre
            /\ e.post.expect_value_for =
                  (IF e.b = 243 THEN "F3" ELSE IF e.b = 232 THEN "E8" ELSE "None")

\* Get ID has been received as the probe by a device that had detected the
\* IntelliMouse handshake, and answered FA, 03.
C4_Witness ==
    /\ probe = "done"
    /\ Len(disp) = 1
    /\ disp[1].b = 242
    /\ disp[1].pre.ps2_id = 3
    /\ written = ReplyFrames(<< 250, 3 >>)

\* C6: after F3 or E8 exactly the next inbound byte is consumed as the argument,
\* whatever its value and whether it comes in the same frame or in a later one:
\* it is answered by one ACK, it is not interpreted as a command, and the
\* emulator is Idle afterwards.
C6_ArgumentByte ==
    /\ \A i \in DOMAIN disp :
          LET e == disp[i]
              rates == LastN(Append(e.pre.rate_seq, e.b), 3)
          IN /\ e.pre.expect_value_for = "F3" =>
                   /\ e.frames = << ReplyFrame(250) >>
                   /\ e.post = [ e.pre EXCEPT
                                   !.expect_value_for = "None",
                                   !.rate_seq = rates,
                                   !.ps2_id = IF rates = << 200, 100, 80 >>
                                              THEN 3 ELSE @ ]
             /\ e.pre.expect_value_for = "E8" =>
                   /\ e.frames = << ReplyFrame(250) >>
                   /\ e.post = [ e.pre EXCEPT !.expect_value_for = "None" ]
             /\ e.pre.expect_value_for = "None" =>
                   e.post.expect_value_for =
                      (IF e.b = 243 THEN "F3" ELSE IF e.b = 232 THEN "E8" ELSE "None")
             /\ i > 1 => e.pre = disp[i - 1].post
    /\ disp # << >> => MouseState(Session) = LastDisp.post

\* A detected IntelliMouse with streaming on has received FF in a later frame as
\* the argument of F3: it is still detected and streaming.
C6_Witness ==
    /\ probe = "done"
    /\ Len(disp) = 1
    /\ disp[1].pre.expect_value_for = "F3"
    /\ disp[1].b = 255
    /\ ps2_id = 3
    /\ streaming_enabled
    /\ written = << ReplyFrame(250) >>

\* The streaming flag after the dispatched bytes d, by the command table: F4 and
\* EA as commands in Idle set it, F5 and FF as commands in Idle clear it, every
\* other byte keeps it.
RECURSIVE StreamingAfter(_, _)
StreamingAfter(flag, d) ==
    IF d = << >> THEN flag
    ELSE LET e == Head(d)
             idle == e.pre.expect_value_for = "None"
         IN StreamingAfter(IF idle /\ e.b \in {244, 234} THEN TRUE
                           ELSE IF idle /\ e.b \in {245, 255} THEN FALSE
                           ELSE flag,
                           Tail(d))

\* C29: the streaming flag is false at session start; it becomes true exactly
\* when F4 or EA is processed as a command in Idle and false exactly when F5 or
\* FF is processed as a command in Idle; no other byte changes it, in
\* particular no argument byte of F3 or E8, whatever its value.
C29_Streaming ==
    /\ ~streaming_enabled
    /\ [][ /\ streaming_enabled' = StreamingAfter(streaming_enabled, disp')
           /\ \A i \in DOMAIN disp' :
                 /\ disp'[i].pre.streaming_enabled =
                       StreamingAfter(streaming_enabled, SubSeq(disp', 1, i - 1))
                 /\ disp'[i].post.streaming_enabled =
                       StreamingAfter(streaming_enabled, SubSeq(disp', 1, i)) ]_vars

\* A streaming device has received Set Resolution with the argument F5 in one
\* frame: both bytes were acknowledged and it is still streaming.
C29_Witness ==
    /\ probe = "done"
    /\ Len(disp) = 2
    /\ disp[1].pre.streaming_enabled
    /\ disp[1].b = 232
    /\ disp[2].pre.expect_value_for = "E8"
    /\ disp[2].b = 245
    /\ written = << ReplyFrame(250), ReplyFrame(250) >>
    /\ streaming_enabled

\* C32: the device id is always 0x00 or 0x03; once it is 0x03 it stays 0x03
\* through every later inbound byte, further Set Sample Rate values that break
\* the 200,100,80 tail included, until FF is processed as a Reset command in
\* Idle; an FF consumed as the argument of F3 or E8 does not reset it.
C32_DeviceId ==
    /\ ps2_id = 0
    /\ [][ /\ ps2_id' \in {0, 3}
           /\ disp' = << >> => ps2_id' = ps2_id
           /\ disp' # << >> =>
                 /\ disp'[1].pre.ps2_id = ps2_id
                 /\ disp'[Len(disp')].post.ps2_id = ps2_id'
           /\ \A i \in DOMAIN disp' :
                 LET e == disp'[i] IN
                 /\ i > 1 => e.pre.ps2_id = disp'[i - 1].post.ps2_id
                 /\ e.post.ps2_id \in {0, 3}
                 /\ IsReset(e) => e.post.ps2_id = 0
                 /\ (e.pre.ps2_id = 3 /\ ~IsReset(e)) => e.post.ps2_id = 3 ]_vars

\* A detected IntelliMouse has received Set Sample Rate with the rate 60: the
\* history no longer ends in 200,100,80 and the device id is still 0x03.
C32_Witness ==
    /\ probe = "done"
    /\ Len(disp) = 2
    /\ disp[1].pre.ps2_id = 3
    /\ disp[1].b = 243
    /\ disp[2].b = 60
    /\ rate_seq = << 100, 80, 60 >>
    /\ ps2_id = 3

(***************************************************************************)
(* SpecCodec: the frame reader fed a byte stream in chunks.  The device    *)
(* has sent either some garbage followed by one frame, or up to MaxFrames  *)
(* frames back to back, or one long frame; the host reads the stream off   *)
(* the transport a few bytes at a time.                                    *)
(***************************************************************************)
MaxBody == 2
MaxGarbage == 2
MaxFrames == 2
MaxChunk == 3

SeqsUpTo(S, n) == UNION {[1..k -> S] : k \in 0..n}

Min(a, b) == IF a < b THEN a ELSE b

\* Frame types: host-to-mouse, debug text, and a type byte equal to the marker.
FrameTypes == {RTYPE_HOST_TO_MOUSE, RTYPE_DEBUG, MARKER}

\* Body bytes: the marker, zero, and a mouse command.
BodyBytes == {MARKER, 0, 243}

\* Garbage bytes: the marker (a false frame start), and bytes that read as a
\* length when they follow it.
GarbageBytes == {MARKER, 0, 1}

OneFrame == {[rtype |-> ty, body |-> bd] : ty \in FrameTypes, bd \in SeqsUpTo(BodyBytes, MaxBody)}

\* Frames sent back to back: their payloads hold the marker, also followed by
\* what reads as a length, and one has the marker as its type byte.
FramePool ==
    { [rtype |-> RTYPE_HOST_TO_MOUSE, body |-> << 243, MARKER >>],
      [rtype |-> RTYPE_DEBUG, body |-> << MARKER, 0, 1 >>],
      [rtype |-> MARKER, body |-> << >>],
      [rtype |-> RTYPE_DEBUG, body |-> << 0 >>] }

\* A long frame: the body is all markers, the payload up to the longest allowed.
LongBodies == {254, 255, 256, MAX_FRAME_LEN - 1}

LongFrames == {[rtype |-> RTYPE_DEBUG, body |-> Fill(n, MARKER)] : n \in LongBodies}

\* What a device that does not keep to the limit sends: a header that declares
\* MAX_FRAME_LEN + 1 payload bytes, and that many bytes, the first of them a
\* type byte.  frame() does not encode it, so it is given as raw bytes.
Overlong ==
    << MARKER, (MAX_FRAME_LEN + 1) \div 256, (MAX_FRAME_LEN + 1) % 256, RTYPE_DEBUG >>
        \o Fill(MAX_FRAME_LEN, 0)

Scenarios ==
    {[garbage |-> g, frames |-> << f >>] :
        g \in SeqsUpTo(GarbageBytes, MaxGarbage), f \in OneFrame}
    \cup {[garbage |-> << >>, frames |-> fs] : fs \in SeqsUpTo(FramePool, MaxFrames)}
    \cup {[garbage |-> << >>, frames |-> << f >>] : f \in LongFrames}
    \cup {[garbage |-> Overlong, frames |-> << >>]}

\* The bytes of a frame on the wire, as frame() encodes them.
WireFrame(f) == frame(<< f.rtype >> \o f.body).bytes

RECURSIVE WireFrames(_)
WireFrames(fs) == IF fs = << >> THEN << >> ELSE WireFrame(Head(fs)) \o WireFrames(Tail(fs))

InitCodec ==
    /\ InitSession
    /\ IdleObs
    /\ IdleLoop
    /\ IdleEnc
    /\ sent \in Scenarios
    /\ wire = sent.garbage \o WireFrames(sent.frames)
    /\ decoded = << >>
    /\ bytewise = TRUE

\* ser.read(256) returns the first k bytes of what has arrived.
Read(k) ==
    /\ k <= Len(wire)
    /\ Poll(SubSeq(wire, 1, k))
    /\ wire' = Drop(wire, k)
    /\ decoded' = decoded \o emitted'
    /\ bytewise' = (bytewise /\ k = 1)
    /\ UNCHANGED << sent, obs, probe, encVars, output_file, loopVars >>

\* ser.read(256) returns all that has arrived, up to the 256 it asks for.
ReadAvailable ==
    /\ Len(wire) > MaxChunk
    /\ Read(Min(Len(wire), READ_SIZE))

NextCodec ==
    \/ \E k \in 1..Min(MaxChunk, READ_SIZE) : Read(k)
    \/ ReadAvailable

SpecCodec == InitCodec /\ [][NextCodec]_vars

(***************************************************************************)
(* Claims about the frame reader, under SpecCodec                          *)
(***************************************************************************)
\* The number of bytes the host has read so far.
Delivered == Len(sent.garbage) + Len(WireFrames(sent.frames)) - Len(wire)

\* How many of the leading frames of fs lie wholly within the first n bytes: a
\* frame takes the marker, two length bytes, the type byte and the body.
RECURSIVE Complete(_, _)
Complete(fs, n) ==
    IF fs = << >> THEN 0
    ELSE LET size == 4 + Len(Head(fs).body) IN
         IF size <= n THEN 1 + Complete(Tail(fs), n - size) ELSE 0

HasMarker(seq) == \E i \in DOMAIN seq : seq[i] = MARKER

\* C1: frame round trip.  The bytes of one encoded frame (type t, body b,
\* 1 + len(b) <= 2047), fed to the reader one byte at a time from a clean start,
\* make it emit exactly one frame, with type t and body b, and nothing before the
\* last byte has arrived.
C1_RoundTrip ==
    (sent.garbage = << >> /\ Len(sent.frames) = 1 /\ bytewise) =>
        decoded = IF wire = << >> THEN sent.frames ELSE << >>

\* A frame whose length takes both length bytes (a payload of 257 bytes) has come
\* back byte by byte.
C1_Witness ==
    /\ bytewise
    /\ wire = << >>
    /\ sent.garbage = << >>
    /\ Len(sent.frames) = 1
    /\ 1 + Len(sent.frames[1].body) = 257
    /\ decoded = sent.frames

\* C9: well-formed frames sent back to back from a clean start, whose payloads
\* may hold the marker, split into arbitrary read chunks: the reader emits
\* exactly those frames in order, each as soon as its last byte has been read;
\* a marker inside a payload starts no frame and truncates none.
C9_MarkerInPayload ==
    sent.garbage = << >> =>
        decoded = SubSeq(sent.frames, 1, Complete(sent.frames, Delivered))

\* Two frames with markers in their bodies have been read in chunks of more
\* than one byte, and both have been emitted.
C9_Witness ==
    /\ ~bytewise
    /\ wire = << >>
    /\ Len(sent.frames) = 2
    /\ HasMarker(sent.frames[1].body)
    /\ HasMarker(sent.frames[2].body)
    /\ decoded = sent.frames

\* C27 as stated: every frame the reader emits has a payload (type byte and
\* body) of at most 2047 bytes.
C27_Original ==
    \A i \in DOMAIN decoded : 1 + Len(decoded[i].body) <= 2047

\* The reader has emitted a frame with a payload of 2048 bytes.
C27_Witness ==
    /\ sent.garbage = Overlong
    /\ wire = << >>
    /\ Len(decoded) = 1
    /\ decoded[1].rtype = 7
    /\ 1 + Len(decoded[1].body) = 2048

\* C10 as stated: whatever the garbled prefix, the frame that follows it is
\* emitted once all of its bytes have arrived.
C10_Original ==
    (Len(sent.frames) = 1 /\ wire = << >>) => decoded = sent.frames

\* C10 as amended: after a garbled prefix that does not hold the marker byte the
\* reader discards the prefix, re-seeks on the marker and emits the frame that
\* follows, once all of its bytes have arrived and not before.
C10_Resync ==
    (Len(sent.frames) = 1 /\ ~HasMarker(sent.garbage)) =>
        /\ decoded = IF wire = << >> THEN sent.frames ELSE << >>
        /\ Delivered <= Len(sent.garbage) => rx_buf = << >>
        /\ wire = << >> => rx_buf = << >>

\* A frame has been emitted after two bytes of garbage, read in chunks that ran
\* across the end of the garbage.
C10_Witness ==
    /\ Len(sent.garbage) = 2
    /\ ~HasMarker(sent.garbage)
    /\ ~bytewise
    /\ wire = << >>
    /\ Len(sent.frames) = 1
    /\ decoded = sent.frames

(***************************************************************************)
(* SpecFrame: the frame encoder applied to payloads of chosen lengths,     *)
(* directly and through build_scancode_frame and build_mouse_frame.        *)
(***************************************************************************)
\* Lengths of the data handed to the encoder: short ones, those about 255, where
\* the length takes its second byte, and those about the limit of 2047.
EncLengths == {0, 1, 2, 3, 254, 255, 256, MAX_FRAME_LEN - 2, MAX_FRAME_LEN - 1,
               MAX_FRAME_LEN, MAX_FRAME_LEN + 1, MAX_FRAME_LEN + 2}

EncFill == {0, MARKER, 255}

InitFrame ==
    /\ InitSession
    /\ IdleCodec
    /\ IdleObs
    /\ IdleLoop
    /\ enc_in \in {Fill(n, b) : n \in EncLengths, b \in EncFill}
    /\ enc_out = NoEnc
    /\ output_file = NoFile

Encoded(op, r) == [op |-> op, ok |-> r.ok, bytes |-> r.bytes]

\* frame(payload), the payload given whole
CallFrame ==
    /\ enc_out.op = "none"
    /\ enc_out' = Encoded("frame", frame(enc_in))
    /\ UNCHANGED << sessionVars, codecVars, obs, probe, enc_in, output_file, loopVars >>

CallBuildScancodeFrame ==
    /\ enc_out.op = "none"
    /\ enc_out' = Encoded("scancode", build_scancode_frame(enc_in))
    /\ UNCHANGED << sessionVars, codecVars, obs, probe, enc_in, output_file, loopVars >>

CallBuildMouseFrame ==
    /\ enc_out.op = "none"
    /\ enc_out' = Encoded("mouse", build_mouse_frame(enc_in))
    /\ UNCHANGED << sessionVars, codecVars, obs, probe, enc_in, output_file, loopVars >>

NextFrame == CallFrame \/ CallBuildScancodeFrame \/ CallBuildMouseFrame

SpecFrame == InitFrame /\ [][NextFrame]_vars

\* The payload of the call: the type byte followed by the data bytes.
EncPayload ==
    IF enc_out.op = "scancode" THEN << CMD_PS2_SCANCODE >> \o enc_in
    ELSE IF enc_out.op = "mouse" THEN << CMD_PS2_MOUSE >> \o enc_in
    ELSE enc_in

\* C8: frame encode fails if and only if the payload (the type byte followed by
\* the data bytes) is longer than 2047 bytes; on success the frame is AA, a
\* big-endian 16-bit length, then the payload, and the length field equals the
\* number of payload bytes that follow it, never more than 2047.
C8_Encode ==
    enc_out.op # "none" =>
        /\ enc_out.ok <=> Len(EncPayload) <= 2047
        /\ enc_out.ok =>
              /\ Len(enc_out.bytes) = 3 + Len(EncPayload)
              /\ enc_out.bytes[1] = 170
              /\ enc_out.bytes[2] \in Byte /\ enc_out.bytes[3] \in Byte
              /\ enc_out.bytes[2] * 256 + enc_out.bytes[3] = Len(enc_out.bytes) - 3
              /\ Drop(enc_out.bytes, 3) = EncPayload
              /\ Len(enc_out.bytes) - 3 <= 2047

\* A mouse frame has been built from 2046 data bytes: with the type byte the
\* payload is 2047 bytes, the longest that is accepted.
C8_Witness ==
    /\ enc_out.op = "mouse"
    /\ enc_out.ok
    /\ Len(enc_in) = 2046
    /\ SubSeq(enc_out.bytes, 1, 4) = << 170, 7, 255, 14 >>

(***************************************************************************)
(* ps2_mouse_packet                                                        *)
(***************************************************************************)
\* line 90-91: clamp8
clamp8(v) == IF v > 127 THEN 127 ELSE IF v < -128 THEN -128 ELSE v

\* v & m for a mask m = 2^k - 1 or a single bit m = 2^k, as Python computes it
\* on an integer of either sign (two's complement of unbounded width).
BitAnd(v, m) ==
    IF m = 255 THEN v % 256
    ELSE IF (v \div m) % 2 = 1 THEN m ELSE 0

\* A faulty variant of ps2_mouse_packet: Y is sent without the sign inversion.
ps2_mouse_packet_y_not_inverted(dx, dy, btn) ==
    LET x_ovf == IF dx < -128 \/ dx > 127 THEN 1 ELSE 0
        y_ovf == IF dy < -128 \/ dy > 127 THEN 1 ELSE 0
        cx == clamp8(dx)
        cy == clamp8(dy)
        b0 == 8 + (IF BitAnd(btn, 1) # 0 THEN 1 ELSE 0)
                + (IF BitAnd(btn, 2) # 0 THEN 2 ELSE 0)
                + (IF BitAnd(btn, 4) # 0 THEN 4 ELSE 0)
                + (IF cx < 0 THEN 16 ELSE 0)
                + (IF cy < 0 THEN 32 ELSE 0)
                + (IF x_ovf = 1 THEN 64 ELSE 0)
                + (IF y_ovf = 1 THEN 128 ELSE 0)
    IN  << b0, BitAnd(cx, 255), BitAnd(cy, 255) >>

\* lines 84-108.  b0 starts as 0x08 and each |= sets a bit that is not set yet,
\* so the result is the sum of the bits.
ps2_mouse_packet(dx, dy, btn) ==
    LET x_ovf == IF dx < -128 \/ dx > 127 THEN 1 ELSE 0       \* lines 94-95
        y_ovf == IF dy < -128 \/ dy > 127 THEN 1 ELSE 0       \* lines 96-97
        cx == clamp8(dx)                                      \* line 98
        cy == clamp8(-dy)                                     \* line 99
        b0 == 8 + (IF BitAnd(btn, 1) # 0 THEN 1 ELSE 0)
                + (IF BitAnd(btn, 2) # 0 THEN 2 ELSE 0)
                + (IF BitAnd(btn, 4) # 0 THEN 4 ELSE 0)
                + (IF cx < 0 THEN 16 ELSE 0)
                + (IF cy < 0 THEN 32 ELSE 0)
                + (IF x_ovf = 1 THEN 64 ELSE 0)
                + (IF y_ovf = 1 THEN 128 ELSE 0)
    IN  << b0, BitAnd(cx, 255), BitAnd(cy, 255) >>

(***************************************************************************)
(* SpecMouse: ps2_mouse_packet applied to motions about zero, about the    *)
(* ends of the signed 8-bit range and far outside it, with every button    *)
(* mask of four bits.                                                      *)
(***************************************************************************)
MouseDeltas == {-300, -130, -129, -128, -127, -5, -1, 0, 1, 5, 10, 126, 127, 128, 129, 300}

ButtonMasks == 0..15

InitMouse ==
    /\ InitSession
    /\ IdleCodec
    /\ IdleObs
    /\ IdleLoop
    /\ enc_in \in [dx : MouseDeltas, dy : MouseDeltas, buttons : ButtonMasks]
    /\ enc_out = NoEnc
    /\ output_file = NoFile

\* lines 297, 305, 310: pkt = ps2_mouse_packet(dx, dy, buttons)
CallPs2MousePacket ==
    /\ enc_out.op = "none"
    /\ enc_out' = [op |-> "packet", ok |-> TRUE,
                   bytes |-> ps2_mouse_packet(enc_in.dx, enc_in.dy, enc_in.buttons)]
    /\ UNCHANGED << sessionVars, codecVars, obs, probe, enc_in, output_file, loopVars >>

NextMouse == CallPs2MousePacket

SpecMouse == InitMouse /\ [][NextMouse]_vars

\* Bit k of a byte
BitOf(b, k) == (b \div (2 ^ k)) % 2

\* The value an axis byte stands for: the byte read as a signed 8-bit number
Signed8(b) == IF b >= 128 THEN b - 256 ELSE b

\* v limited to the signed 8-bit range
Clamped(v) == IF v < -128 THEN -128 ELSE IF v > 127 THEN 127 ELSE v

\* C11: the mouse packet is exactly 3 bytes; byte 1 is clamp(dx) & 0xFF and byte
\* 2 is clamp(-dy) & 0xFF; in byte 0 bit 3 is set, bits 0, 1, 2 are the left,
\* right, middle bits of the mask whatever its higher bits, bit 4 is set iff
\* the transmitted X is negative and bit 5 iff the transmitted Y is negative;
\* (10, -5, 0b001) gives 09 0A 05.
C11_MousePacket ==
    enc_out.op = "packet" =>
        LET pkt == enc_out.bytes
            tx == Clamped(enc_in.dx)
            ty == Clamped(0 - enc_in.dy)
        IN  /\ Len(pkt) = 3
            /\ \A i \in 1..3 : pkt[i] \in Byte
            /\ Signed8(pkt[2]) = tx
            /\ Signed8(pkt[3]) = ty
            /\ BitOf(pkt[1], 3) = 1
            /\ \A k \in 0..2 : BitOf(pkt[1], k) = BitOf(enc_in.buttons, k)
            /\ BitOf(pkt[1], 4) = 1 <=> tx < 0
            /\ BitOf(pkt[1], 5) = 1 <=> ty < 0
            /\ (enc_in.dx = 10 /\ enc_in.dy = -5 /\ enc_in.buttons = 1)
                  => pkt = << 9, 10, 5 >>

\* The packet of a motion up and to the left with the mask 0b1101: Y is sent
\* positive, X negative, and bit 3 of the mask does not show.
C11_Witness ==
    /\ enc_out.op = "packet"
    /\ enc_in = [dx |-> -5, dy |-> -5, buttons |-> 13]
    /\ enc_out.bytes = << 29, 251, 5 >>

\* C12 as stated: bit 6 is set iff dx is outside [-128,127] and bit 7 iff the
\* sign-inverted dy, the value that is then clamped, is outside [-128,127]; so
\* an overflow bit is set exactly when the transmitted value differs from the
\* unclamped one.
C12_Original ==
    enc_out.op = "packet" =>
        LET pkt == enc_out.bytes
        IN  /\ BitOf(pkt[1], 6) = 1 <=> (enc_in.dx < -128 \/ enc_in.dx > 127)
            /\ BitOf(pkt[1], 7) = 1 <=> (0 - enc_in.dy < -128 \/ 0 - enc_in.dy > 127)
            /\ BitOf(pkt[1], 6) = 1 <=> Signed8(pkt[2]) # enc_in.dx
            /\ BitOf(pkt[1], 7) = 1 <=> Signed8(pkt[3]) # 0 - enc_in.dy

\* What the code does about overflow: the Y bit is computed from dy as it was
\* given, before the inversion.
C12_OverflowAsCoded ==
    enc_out.op = "packet" =>
        LET pkt == enc_out.bytes
        IN  /\ BitOf(pkt[1], 6) = 1 <=> (enc_in.dx < -128 \/ enc_in.dx > 127)
            /\ BitOf(pkt[1], 7) = 1 <=> (enc_in.dy < -128 \/ enc_in.dy > 127)

\* dy = -128: the motion of 128 is sent as 127 and the Y overflow bit is clear.
C12_Witness ==
    /\ enc_out.op = "packet"
    /\ enc_in.dy = -128
    /\ Signed8(enc_out.bytes[3]) = 127
    /\ BitOf(enc_out.bytes[1], 7) = 0

(***************************************************************************)
(* The scancode table and the keyboard encoder                             *)
(***************************************************************************)
\* lines 18-64.  A list entry [make...] has tuple = FALSE and its brk unused;
\* a tuple entry (make, break) has tuple = TRUE.
KEYMAP ==
    "a" :> [tuple |-> FALSE, make |-> << 28 >>, brk |-> << >>]
    @@ "b" :> [tuple |-> FALSE, make |-> << 50 >>, brk |-> << >>]
    @@ "c" :> [tuple |-> FALSE, make |-> << 33 >>, brk |-> << >>]
    @@ "d" :> [tuple |-> FALSE, make |-> << 35 >>, brk |-> << >>]
    @@ "e" :> [tuple |-> FALSE, make |-> << 36 >>, brk |-> << >>]
    @@ "f" :> [tuple |-> FALSE, make |-> << 43 >>, brk |-> << >>]
    @@ "g" :> [tuple |-> FALSE, make |-> << 52 >>, brk |-> << >>]
    @@ "h" :> [tuple |-> FALSE, make |-> << 51 >>, brk |-> << >>]
    @@ "i" :> [tuple |-> FALSE, make |-> << 67 >>, brk |-> << >>]
    @@ "j" :> [tuple |-> FALSE, make |-> << 59 >>, brk |-> << >>]
    @@ "k" :> [tuple |-> FALSE, make |-> << 66 >>, brk |-> << >>]
    @@ "l" :> [tuple |-> FALSE, make |-> << 75 >>, brk |-> << >>]
    @@ "m" :> [tuple |-> FALSE, make |-> << 58 >>, brk |-> << >>]
    @@ "n" :> [tuple |-> FALSE, make |-> << 49 >>, brk |-> << >>]
    @@ "o" :> [tuple |-> FALSE, make |-> << 68 >>, brk |-> << >>]
    @@ "p" :> [tuple |-> FALSE, make |-> << 77 >>, brk |-> << >>]
    @@ "q" :> [tuple |-> FALSE, make |-> << 21 >>, brk |-> << >>]
    @@ "r" :> [tuple |-> FALSE, make |-> << 45 >>, brk |-> << >>]
    @@ "s" :> [tuple |-> FALSE, make |-> << 27 >>, brk |-> << >>]
    @@ "t" :> [tuple |-> FALSE, make |-> << 44 >>, brk |-> << >>]
    @@ "u" :> [tuple |-> FALSE, make |-> << 60 >>, brk |-> << >>]
    @@ "v" :> [tuple |-> FALSE, make |-> << 42 >>, brk |-> << >>]
    @@ "w" :> [tuple |-> FALSE, make |-> << 29 >>, brk |-> << >>]
    @@ "x" :> [tuple |-> FALSE, make |-> << 34 >>, brk |-> << >>]
    @@ "y" :> [tuple |-> FALSE, make |-> << 53 >>, brk |-> << >>]
    @@ "z" :> [tuple |-> FALSE, make |-> << 26 >>, brk |-> << >>]
    @@ "1" :> [tuple |-> FALSE, make |-> << 22 >>, brk |-> << >>]
    @@ "2" :> [tuple |-> FALSE, make |-> << 30 >>, brk |-> << >>]
    @@ "3" :> [tuple |-> FALSE, make |-> << 38 >>, brk |-> << >>]
    @@ "4" :> [tuple |-> FALSE, make |-> << 37 >>, brk |-> << >>]
    @@ "5" :> [tuple |-> FALSE, make |-> << 46 >>, brk |-> << >>]
    @@ "6" :> [tuple |-> FALSE, make |-> << 54 >>, brk |-> << >>]
    @@ "7" :> [tuple |-> FALSE, make |-> << 61 >>, brk |-> << >>]
    @@ "8" :> [tuple |-> FALSE, make |-> << 62 >>, brk |-> << >>]
    @@ "9" :> [tuple |-> FALSE, make |-> << 70 >>, brk |-> << >>]
    @@ "0" :> [tuple |-> FALSE, make |-> << 69 >>, brk |-> << >>]
    @@ "backquote" :> [tuple |-> FALSE, make |-> << 14 >>, brk |-> << >>]
    @@ "minus" :> [tuple |-> FALSE, make |-> << 78 >>, brk |-> << >>]
    @@ "underscore" :> [tuple |-> FALSE, make |-> << 78 >>, brk |-> << >>]
    @@ "equals" :> [tuple |-> FALSE, make |-> << 85 >>, brk |-> << >>]
    @@ "plus" :> [tuple |-> FALSE, make |-> << 85 >>, brk |-> << >>]
    @@ "leftbracket" :> [tuple |-> FALSE, make |-> << 84 >>, brk |-> << >>]
    @@ "rightbracket" :> [tuple |-> FALSE, make |-> << 91 >>, brk |-> << >>]
    @@ "backslash" :> [tuple |-> FALSE, make |-> << 93 >>, brk |-> << >>]
    @@ "semicolon" :> [tuple |-> FALSE, make |-> << 76 >>, brk |-> << >>]
    @@ "colon" :> [tuple |-> FALSE, make |-> << 76 >>, brk |-> << >>]
    @@ "quote" :> [tuple |-> FALSE, make |-> << 82 >>, brk |-> << >>]
    @@ "doublequote" :> [tuple |-> FALSE, make |-> << 82 >>, brk |-> << >>]
    @@ "comma" :> [tuple |-> FALSE, make |-> << 65 >>, brk |-> << >>]
    @@ "less" :> [tuple |-> FALSE, make |-> << 65 >>, brk |-> << >>]
    @@ "period" :> [tuple |-> FALSE, make |-> << 73 >>, brk |-> << >>]
    @@ "greater" :> [tuple |-> FALSE, make |-> << 73 >>, brk |-> << >>]
    @@ "slash" :> [tuple |-> FALSE, make |-> << 74 >>, brk |-> << >>]
    @@ "question" :> [tuple |-> FALSE, make |-> << 74 >>, brk |-> << >>]
    @@ "enter" :> [tuple |-> FALSE, make |-> << 90 >>, brk |-> << >>]
    @@ "esc" :> [tuple |-> FALSE, make |-> << 118 >>, brk |-> << >>]
    @@ "backspace" :> [tuple |-> FALSE, make |-> << 102 >>, brk |-> << >>]
    @@ "tab" :> [tuple |-> FALSE, make |-> << 13 >>, brk |-> << >>]
    @@ "space" :> [tuple |-> FALSE, make |-> << 41 >>, brk |-> << >>]
    @@ "capslock" :> [tuple |-> FALSE, make |-> << 88 >>, brk |-> << >>]
    @@ "numlock" :> [tuple |-> FALSE, make |-> << 119 >>, brk |-> << >>]
    @@ "scrolllock" :> [tuple |-> FALSE, make |-> << 126 >>, brk |-> << >>]
    @@ "leftshift" :> [tuple |-> FALSE, make |-> << 18 >>, brk |-> << >>]
    @@ "rightshift" :> [tuple |-> FALSE, make |-> << 89 >>, brk |-> << >>]
    @@ "leftctrl" :> [tuple |-> FALSE, make |-> << 20 >>, brk |-> << >>]
    @@ "rightctrl" :> [tuple |-> FALSE, make |-> << 224, 20 >>, brk |-> << >>]
    @@ "leftalt" :> [tuple |-> FALSE, make |-> << 17 >>, brk |-> << >>]
    @@ "rightalt" :> [tuple |-> FALSE, make |-> << 224, 17 >>, brk |-> << >>]
    @@ "f1" :> [tuple |-> FALSE, make |-> << 5 >>, brk |-> << >>]
    @@ "f2" :> [tuple |-> FALSE, make |-> << 6 >>, brk |-> << >>]
    @@ "f3" :> [tuple |-> FALSE, make |-> << 4 >>, brk |-> << >>]
    @@ "f4" :> [tuple |-> FALSE, make |-> << 12 >>, brk |-> << >>]
    @@ "f5" :> [tuple |-> FALSE, make |-> << 3 >>, brk |-> << >>]
    @@ "f6" :> [tuple |-> FALSE, make |-> << 11 >>, brk |-> << >>]
    @@ "f7" :> [tuple |-> FALSE, make |-> << 131 >>, brk |-> << >>]
    @@ "f8" :> [tuple |-> FALSE, make |-> << 10 >>, brk |-> << >>]
    @@ "f9" :> [tuple |-> FALSE, make |-> << 1 >>, brk |-> << >>]
    @@ "f10" :> [tuple |-> FALSE, make |-> << 9 >>, brk |-> << >>]
    @@ "f11" :> [tuple |-> FALSE, make |-> << 120 >>, brk |-> << >>]
    @@ "f12" :> [tuple |-> FALSE, make |-> << 7 >>, brk |-> << >>]
    @@ "printscreen" :> [tuple |-> TRUE, make |-> << 224, 18, 224, 124 >>, brk |-> << 224, 240, 124, 224, 240, 18 >>]
    @@ "pause" :> [tuple |-> TRUE, make |-> << 225, 20, 119, 225, 240, 20, 224, 119 >>, brk |-> << >>]
    @@ "insert" :> [tuple |-> FALSE, make |-> << 224, 112 >>, brk |-> << >>]
    @@ "home" :> [tuple |-> FALSE, make |-> << 224, 108 >>, brk |-> << >>]
    @@ "pageup" :> [tuple |-> FALSE, make |-> << 224, 125 >>, brk |-> << >>]
    @@ "delete" :> [tuple |-> FALSE, make |-> << 224, 113 >>, brk |-> << >>]
    @@ "end" :> [tuple |-> FALSE, make |-> << 224, 105 >>, brk |-> << >>]
    @@ "pagedown" :> [tuple |-> FALSE, make |-> << 224, 122 >>, brk |-> << >>]
    @@ "up" :> [tuple |-> FALSE, make |-> << 224, 117 >>, brk |-> << >>]
    @@ "down" :> [tuple |-> FALSE, make |-> << 224, 114 >>, brk |-> << >>]
    @@ "left" :> [tuple |-> FALSE, make |-> << 224, 107 >>, brk |-> << >>]
    @@ "right" :> [tuple |-> FALSE, make |-> << 224, 116 >>, brk |-> << >>]
    @@ "kp_divide" :> [tuple |-> FALSE, make |-> << 224, 74 >>, brk |-> << >>]
    @@ "kp_multiply" :> [tuple |-> FALSE, make |-> << 124 >>, brk |-> << >>]
    @@ "kp_minus" :> [tuple |-> FALSE, make |-> << 123 >>, brk |-> << >>]
    @@ "kp_7" :> [tuple |-> FALSE, make |-> << 108 >>, brk |-> << >>]
    @@ "kp_8" :> [tuple |-> FALSE, make |-> << 117 >>, brk |-> << >>]
    @@ "kp_9" :> [tuple |-> FALSE, make |-> << 125 >>, brk |-> << >>]
    @@ "kp_plus" :> [tuple |-> FALSE, make |-> << 121 >>, brk |-> << >>]
    @@ "kp_4" :> [tuple |-> FALSE, make |-> << 107 >>, brk |-> << >>]
    @@ "kp_5" :> [tuple |-> FALSE, make |-> << 115 >>, brk |-> << >>]
    @@ "kp_6" :> [tuple |-> FALSE, make |-> << 116 >>, brk |-> << >>]
    @@ "kp_1" :> [tuple |-> FALSE, make |-> << 105 >>, brk |-> << >>]
    @@ "kp_2" :> [tuple |-> FALSE, make |-> << 114 >>, brk |-> << >>]
    @@ "kp_3" :> [tuple |-> FALSE, make |-> << 122 >>, brk |-> << >>]
    @@ "kp_0" :> [tuple |-> FALSE, make |-> << 112 >>, brk |-> << >>]
    @@ "kp_period" :> [tuple |-> FALSE, make |-> << 113 >>, brk |-> << >>]
    @@ "kp_enter" :> [tuple |-> FALSE, make |-> << 224, 90 >>, brk |-> << >>]
    @@ "kp_equals" :> [tuple |-> FALSE, make |-> << 224, 90 >>, brk |-> << >>]

\* line 140: name.lower(), on the key names the specifications use
lower(name) ==
    CASE name = "A" -> "a"
      [] name = "Pause" -> "pause"
      [] name = "PrintScreen" -> "printscreen"
      [] OTHER -> name

\* lines 111-115; none stands for a break of None
_get_make_break(keyname) ==
    LET v == KEYMAP[keyname]
    IN  IF v.tuple THEN [make |-> v.make, brk |-> v.brk, none |-> FALSE]
        ELSE [make |-> v.make, brk |-> << >>, none |-> TRUE]

\* A faulty variant of DeriveExtended: the prefix is treated as any other byte.
DeriveExtended_as_plain(make_bytes, i, out) ==
    [i |-> i, out |-> out \o << 240, 224 >>]

\* lines 124-127, i counted from 0 as in the source: the prefix is copied and
\* the byte after it, if there is one, follows a 0xF0
DeriveExtended(make_bytes, i, out) ==
    [i |-> i + 1,
     out |-> IF i + 1 < Len(make_bytes)
             THEN Append(out, 224) \o << 240, make_bytes[i + 2] >>
             ELSE Append(out, 224)]

\* A faulty variant of DerivePlain: the 0xF0 follows the byte.
DerivePlain_swapped(out, b) == out \o << b, 240 >>

\* line 132
DerivePlain(out, b) == out \o << 240, b >>

\* lines 121-134: the loop, from index i with out built so far
RECURSIVE DeriveLoop(_, _, _)
DeriveLoop(make_bytes, i, out) ==
    IF ~(i < Len(make_bytes)) THEN out
    ELSE IF make_bytes[i + 1] = 224
         THEN \* the branch's i += 1 and the loop's i += 1
              DeriveLoop(make_bytes, DeriveExtended(make_bytes, i, out).i + 1,
                         DeriveExtended(make_bytes, i, out).out)
    ELSE IF make_bytes[i + 1] = 225 THEN << >>
    ELSE DeriveLoop(make_bytes, i + 1, DerivePlain(out, make_bytes[i + 1]))

\* lines 118-134
_derive_break_from_make(make_bytes) == DeriveLoop(make_bytes, 0, << >>)

\* A faulty variant of ExpandKey: the key's bytes are put in front of the earlier ones.
ExpandKey_prepends(out, key, pressed) ==
    LET mb == _get_make_break(key)
    IN  IF pressed THEN mb.make \o out
        ELSE IF ~mb.none THEN mb.brk \o out
        ELSE _derive_break_from_make(mb.make) \o out

\* lines 143-150: what one known key adds to out
ExpandKey(out, key, pressed) ==
    LET mb == _get_make_break(key)
    IN  IF pressed THEN out \o mb.make
        ELSE IF ~mb.none THEN out \o mb.brk
        ELSE out \o _derive_break_from_make(mb.make)

\* A faulty variant of UnknownKey: the encoder stops at the unknown name and returns
\* what it has.
UnknownKey_returns_partial(out) == [ok |-> TRUE, bytes |-> out]

\* line 142: raise KeyError; out is dropped with the call's frame
UnknownKey(out) == [ok |-> FALSE, bytes |-> << >>]

\* lines 139-151
RECURSIVE ExpandLoop(_, _, _)
ExpandLoop(names, pressed, out) ==
    IF names = << >> THEN [ok |-> TRUE, bytes |-> out]
    ELSE IF lower(Head(names)) \notin DOMAIN KEYMAP THEN UnknownKey(out)
    ELSE ExpandLoop(Tail(names), pressed, ExpandKey(out, lower(Head(names)), pressed))

\* lines 137-151
expand_keys_to_scancodes(names, pressed) == ExpandLoop(names, pressed, << >>)

(***************************************************************************)
(* SpecBreak: _derive_break_from_make applied to make sequences of up to   *)
(* MaxMake bytes over the two prefixes, the break code and two key codes.  *)
(***************************************************************************)
MaxMake == 4

MakeBytes == {224, 225, 240, 28, 117}

InitBreak ==
    /\ InitSession
    /\ IdleCodec
    /\ IdleObs
    /\ IdleLoop
    /\ enc_in \in SeqsUpTo(MakeBytes, MaxMake)
    /\ enc_out = NoEnc
    /\ output_file = NoFile

\* line 150: _derive_break_from_make(make)
CallDeriveBreak ==
    /\ enc_out.op = "none"
    /\ enc_out' = [op |-> "derive", ok |-> TRUE, bytes |-> _derive_break_from_make(enc_in)]
    /\ UNCHANGED << sessionVars, codecVars, obs, probe, enc_in, output_file, loopVars >>

NextBreak == CallDeriveBreak

SpecBreak == InitBreak /\ [][NextBreak]_vars

Contains(seq, b) == \E i \in DOMAIN seq : seq[i] = b

\* 0xF0 put before each byte of seq
Interleave(seq) == [i \in 1..(2 * Len(seq)) |-> IF i % 2 = 1 THEN 240 ELSE seq[i \div 2]]

\* Position i of make holds an extended prefix: an 0xE0 that is not itself the
\* byte an earlier prefix announces.
RECURSIVE IsPrefix(_, _)
IsPrefix(make, i) == make[i] = 224 /\ (i = 1 \/ ~IsPrefix(make, i - 1))

\* The break the derivation rule describes: each prefix copied, every other
\* byte after an 0xF0, in the order of the make sequence.
RECURSIVE Pieces(_, _)
Pieces(make, i) ==
    IF i > Len(make) THEN << >>
    ELSE (IF IsPrefix(make, i) THEN << 224 >> ELSE << 240, make[i] >>) \o Pieces(make, i + 1)

MaxNames == 2

\* A plain key in upper case, an extended key, the two keys with an explicit
\* break (the one of Pause is empty), and a name the table does not have.
KeyNames == {"A", "up", "printscreen", "Pause", "nokey"}

InitKeys ==
    /\ InitSession
    /\ IdleCodec
    /\ IdleObs
    /\ IdleLoop
    /\ enc_in \in [n1 : SeqsUpTo(KeyNames, MaxNames), n2 : SeqsUpTo(KeyNames, MaxNames),
                   pressed : BOOLEAN]
    /\ enc_out = NoEnc
    /\ output_file = NoFile

keysUnchanged == << ps2_id, rate_seq, expect_value_for, streaming_enabled,
                    rx_buf, rx_state, rx_len, rx_payload, data, emitted, disp,
                    codecVars, obs, probe, enc_in, output_file, loopVars >>

\* expand_keys_to_scancodes on the whole batch and on its two parts
CallExpand ==
    /\ enc_out.op = "none"
    /\ enc_out' = [op |-> "expand",
                   names |-> enc_in.n1 \o enc_in.n2,
                   ok |-> expand_keys_to_scancodes(enc_in.n1 \o enc_in.n2, enc_in.pressed).ok,
                   bytes |-> expand_keys_to_scancodes(enc_in.n1 \o enc_in.n2, enc_in.pressed).bytes,
                   left |-> expand_keys_to_scancodes(enc_in.n1, enc_in.pressed),
                   right |-> expand_keys_to_scancodes(enc_in.n2, enc_in.pressed)]
    /\ UNCHANGED << written, keysUnchanged >>

\* lines 161-164: send(port, baud, payload), reached only when the encoder and
\* the framing before it raised nothing
send(sc) ==
    IF sc.ok /\ build_scancode_frame(sc.bytes).ok
    THEN Append(written, build_scancode_frame(sc.bytes).bytes)
    ELSE written

\* lines 841-844: mode keys, all names pressed
MainKeys ==
    /\ enc_out.op = "none"
    /\ enc_in.pressed
    /\ \E sc \in {expand_keys_to_scancodes(enc_in.n1 \o enc_in.n2, TRUE)} :
          /\ enc_out' = [op |-> "keys", names |-> enc_in.n1 \o enc_in.n2,
                         ok |-> sc.ok, bytes |-> sc.bytes]
          /\ written' = send(sc)
    /\ UNCHANGED keysUnchanged

\* lines 845-853: mode key, one name and down or up
MainKey ==
    /\ enc_out.op = "none"
    /\ Len(enc_in.n1) = 1
    /\ enc_in.n2 = << >>
    /\ \E sc \in {expand_keys_to_scancodes(<< enc_in.n1[1] >>, enc_in.pressed)} :
          /\ enc_out' = [op |-> "key", names |-> enc_in.n1,
                         ok |-> sc.ok, bytes |-> sc.bytes]
          /\ written' = send(sc)
    /\ UNCHANGED keysUnchanged

NextKeys == CallExpand \/ MainKeys \/ MainKey

SpecKeys == InitKeys /\ [][NextKeys]_vars

\* The names of KeyNames the table has, whatever their case
Known(name) == name \in {"A", "up", "printscreen", "Pause"}

\* What each known name of KeyNames stands for, read off the scancode table
ExpectedKey(name, pressed) ==
    CASE name = "A" -> IF pressed THEN << 28 >> ELSE << 240, 28 >>
      [] name = "up" -> IF pressed THEN << 224, 117 >> ELSE << 224, 240, 117 >>
      [] name = "printscreen" ->
            IF pressed THEN << 224, 18, 224, 124 >> ELSE << 224, 240, 124, 224, 240, 18 >>
      [] name = "Pause" ->
            IF pressed THEN << 225, 20, 119, 225, 240, 20, 224, 119 >> ELSE << >>

RECURSIVE ExpectedKeys(_, _)
ExpectedKeys(names, pressed) ==
    IF names = << >> THEN << >>
    ELSE ExpectedKey(Head(names), pressed) \o ExpectedKeys(Tail(names), pressed)

\* C15: for all lists of known key names, in any case, encode(n1 ++ n2,
\* pressed) = encode(n1, pressed) ++ encode(n2, pressed), each name adding its
\* make sequence if pressed, else the table's explicit break if it has one, else
\* the derived break.
C15_Concatenation ==
    (enc_out.op = "expand" /\ \A i \in DOMAIN enc_out.names : Known(enc_out.names[i])) =>
        /\ enc_out.ok /\ enc_out.left.ok /\ enc_out.right.ok
        /\ enc_out.bytes = enc_out.left.bytes \o enc_out.right.bytes
        /\ enc_out.bytes = ExpectedKeys(enc_out.names, enc_in.pressed)

\* A chord released: a plain key, then an extended key and Pause, whose
\* explicit break is empty.
C15_Witness ==
    /\ enc_out.op = "expand"
    /\ enc_in = [n1 |-> << "A" >>, n2 |-> << "up", "Pause" >>, pressed |-> FALSE]
    /\ enc_out.bytes = << 240, 28, 224, 240, 117 >>

\* C16: if any name of a batch is absent from the table the encode call fails
\* and yields no bytes, and no frame is built or written to the transport, not
\* even for the keys before the unknown one; a batch of known names is encoded
\* and, from the command line, written as one frame.
C16_UnknownKey ==
    enc_out.op \in {"expand", "keys", "key"} =>
        IF \E i \in DOMAIN enc_out.names : ~Known(enc_out.names[i])
        THEN ~enc_out.ok /\ enc_out.bytes = << >> /\ written = << >>
        ELSE /\ enc_out.ok
             /\ enc_out.op # "expand" =>
                   /\ Len(written) = 1
                   /\ Drop(written[1], 4) = enc_out.bytes

\* Mode keys with a known key before the unknown one: nothing is written.
C16_Witness ==
    /\ enc_out.op = "keys"
    /\ enc_out.names = << "A", "up", "nokey" >>
    /\ ~enc_out.ok
    /\ written = << >>

(***************************************************************************)
(* tools/mksdcard.py: the image composer.  A file is the sequence of the   *)
(* writes that made it, each an extent [src, len]: len bytes taken from    *)
(* the start of the input src ("bios", "vga", "hdd"), of the config stream *)
(* ("cfg"), of zeros ("zero") or of what the file held before ("old").     *)
(***************************************************************************)
SECTOR_SIZE == 512
BIOS_OFFSET == 0
VGA_BIOS_OFFSET == 64 * 1024
CFG_SECTOR == 192
CFG_OFFSET == CFG_SECTOR * SECTOR_SIZE
HDD_OFFSET == 128 * 1024

\* outf.tell() after the writes so far
RECURSIVE tell(_)
tell(extents) == IF extents = << >> THEN 0 ELSE Head(extents).len + tell(Tail(extents))

\* outf.write of n bytes from src; a write of no bytes leaves the file as it is
write(f, src, n) ==
    IF n = 0 THEN f ELSE [f EXCEPT !.extents = Append(@, [src |-> src, len |-> n])]

\* lines 268-270, 277-279, 286-288: zeros up to offset, if the file is shorter
PadTo(f, offset) ==
    IF tell(f.extents) < offset THEN write(f, "zero", offset - tell(f.extents)) ELSE f

\* lines 230-233
InputsExist(a) == a.bios.exists /\ a.vga.exists /\ a.hdd.exists

\* A faulty variant of BiosFits: a BIOS of exactly 64KiB is turned down.
BiosFits_strict(a) == a.bios.size < VGA_BIOS_OFFSET

\* line 242
BiosFits(a) == ~(a.bios.size > VGA_BIOS_OFFSET)

\* line 247
VgaFits(a) == ~(VGA_BIOS_OFFSET + a.vga.size > HDD_OFFSET)

\* lines 45 and 59: the four partition entries are cut from the first sector
\* read from the disk image and unpacked as 16 bytes each; struct.unpack raises
\* on an entry cut short by the end of the file
MbrUnpackRaises(hdd_size) == hdd_size < 446 + 4 * 16

\* lines 164-213: the length of the config stream: 9 CMOS pairs, 5 geometry
\* pairs and 128 IDENTIFY pairs of 8 bytes, the 4-byte terminator, padded to a
\* whole number of sectors
ConfigStreamLen ==
    LET len == 8 * (9 + 5 + 128) + 4
    IN  IF len % SECTOR_SIZE # 0 THEN len + (SECTOR_SIZE - (len % SECTOR_SIZE)) ELSE len

\* line 262: open(output_file, 'wb') creates the file or truncates it
Opened == [exists |-> TRUE, extents |-> << >>]

\* lines 264-279: BIOS, padding, VGA BIOS, padding
UpToConfig(a) ==
    PadTo(write(PadTo(write(Opened, "bios", a.bios.size), VGA_BIOS_OFFSET),
                "vga", a.vga.size),
          CFG_OFFSET)

\* lines 282-292: config stream, padding, disk image
FromConfig(f, a) ==
    write(PadTo(write(f, "cfg", ConfigStreamLen), HDD_OFFSET), "hdd", a.hdd.size)

\* lines 216-299: the value returned and the output file left behind, old
\* being the output file before the call
create_sdcard_image(a, old) ==
    IF ~InputsExist(a) THEN [ok |-> FALSE, file |-> old]
    ELSE IF ~BiosFits(a) THEN [ok |-> FALSE, file |-> old]
    ELSE IF ~VgaFits(a) THEN [ok |-> FALSE, file |-> old]
    ELSE IF MbrUnpackRaises(a.hdd.size)
         THEN [ok |-> FALSE, file |-> UpToConfig(a)]      \* lines 297-299
    ELSE [ok |-> TRUE, file |-> FromConfig(UpToConfig(a), a)]

(***************************************************************************)
(* SpecImage: one run of the image composer on input files that are        *)
(* missing, empty, small, or about the sizes the checks and offsets turn   *)
(* on, with the output file absent or present beforehand.                  *)
(***************************************************************************)
InputFile(sizes) == {[exists |-> FALSE, size |-> 0]} \cup {[exists |-> TRUE, size |-> n] : n \in sizes}

BiosSizes == {0, 100, VGA_BIOS_OFFSET - 1, VGA_BIOS_OFFSET, VGA_BIOS_OFFSET + 1}

VgaSizes == {0, 50, 32768, 32769, 64000, 64001, 65536, 65537}

HddSizes == {0, 509, 510, 1000}

OldFile == [exists |-> TRUE, extents |-> << [src |-> "old", len |-> 7] >>]

InitImage ==
    /\ InitSession
    /\ IdleCodec
    /\ IdleObs
    /\ IdleLoop
    /\ enc_in \in [bios : InputFile(BiosSizes), vga : InputFile(VgaSizes),
                   hdd : InputFile(HddSizes), mem_mb : {1, 2}, old : {NoFile, OldFile}]
    /\ enc_out = NoEnc
    /\ output_file = enc_in.old

\* lines 302-317: main calls create_sdcard_image once
CreateImage ==
    /\ enc_out.op = "none"
    /\ \E r \in {create_sdcard_image(enc_in, output_file)} :
          /\ enc_out' = [op |-> "image", ok |-> r.ok, bytes |-> << >>]
          /\ output_file' = r.file
    /\ UNCHANGED << sessionVars, codecVars, obs, probe, enc_in, loopVars >>

NextImage == CreateImage

SpecImage == InitImage /\ [][NextImage]_vars

\* The offset at which extent k of a file starts
OffsetOf(extents, k) == tell(SubSeq(extents, 1, k - 1))

\* The file holds, from offset off, the first n bytes of src: nothing when
\* n is 0, else one extent of src of that length starting there
HoldsAt(f, src, off, n) ==
    n > 0 => \E k \in DOMAIN f.extents :
                /\ f.extents[k] = [src |-> src, len |-> n]
                /\ OffsetOf(f.extents, k) = off

\* The extents of src in the file
ExtentsOf(f, src) == {k \in DOMAIN f.extents : f.extents[k].src = src}

Composed == enc_out.op = "image" /\ enc_out.ok

\* C17 as stated: for every composition that succeeds the output file is
\* exactly 0x20000 + len(HDD) bytes long, bytes [0, len(BIOS)) are the BIOS,
\* bytes [0x10000, 0x10000 + len(VGA BIOS)) are the VGA BIOS and the disk image
\* occupies [0x20000, end).
C17_Original ==
    Composed =>
        /\ tell(output_file.extents) = 131072 + enc_in.hdd.size
        /\ HoldsAt(output_file, "bios", 0, enc_in.bios.size)
        /\ HoldsAt(output_file, "vga", 65536, enc_in.vga.size)
        /\ HoldsAt(output_file, "hdd", 131072, enc_in.hdd.size)

\* A VGA BIOS of 64KiB passes the checks; the config stream then follows it
\* at 0x20000 and the disk image starts at 0x20600.
C17_Witness ==
    /\ Composed
    /\ enc_in.vga.size = 65536
    /\ enc_in.hdd.size = 1000
    /\ HoldsAt(output_file, "hdd", 131072 + 1536, 1000)
    /\ tell(output_file.extents) = 131072 + 1536 + 1000

\* C18 as stated: for every composition that succeeds the config stream
\* starts at byte offset 0x18000 (sector 192), does not overlap the VGA BIOS
\* bytes and lies entirely below 0x20000.
C18_Original ==
    Composed =>
        \E k \in ExtentsOf(output_file, "cfg") :
            /\ ExtentsOf(output_file, "cfg") = {k}
            /\ OffsetOf(output_file.extents, k) = 98304
            /\ OffsetOf(output_file.extents, k) = 192 * 512
            /\ 65536 + enc_in.vga.size <= OffsetOf(output_file.extents, k)
            /\ OffsetOf(output_file.extents, k) + output_file.extents[k].len <= 131072

\* A VGA BIOS one byte longer than 32KiB: the config stream starts at 0x18001.
C18_Witness ==
    /\ Composed
    /\ enc_in.vga.size = 32769
    /\ \E k \in ExtentsOf(output_file, "cfg") : OffsetOf(output_file.extents, k) = 98305

\* C19: the composer reports failure when an input file is missing, when the
\* BIOS is longer than 64KiB (65536 bytes are accepted) or when 0x10000 +
\* len(VGA BIOS) exceeds 0x20000, and then the output file is as it was before
\* the call: not created, not truncated, not written.
C19_Preconditions ==
    enc_out.op = "image" =>
        /\ (\/ ~enc_in.bios.exists \/ ~enc_in.vga.exists \/ ~enc_in.hdd.exists
            \/ enc_in.bios.size > 65536
            \/ 65536 + enc_in.vga.size > 131072)
              => (~enc_out.ok /\ output_file = enc_in.old)
        /\ (/\ enc_in.bios.exists /\ enc_in.vga.exists /\ enc_in.hdd.exists
            /\ enc_in.bios.size = 65536
            /\ enc_in.vga.size <= 65536
            /\ enc_in.hdd.size >= 512)
              => enc_out.ok

\* A BIOS one byte too long, the output file present beforehand: failure is
\* reported and the old file is untouched.
C19_Witness ==
    /\ enc_out.op = "image"
    /\ ~enc_out.ok
    /\ enc_in.bios = [exists |-> TRUE, size |-> 65537]
    /\ enc_in.vga.exists /\ enc_in.hdd.exists
    /\ enc_in.old = OldFile
    /\ output_file = OldFile

(***************************************************************************)
(* tools/mksdcard.py: geometry inference from the partition table          *)
(***************************************************************************)
\* A faulty variant of decode_chs: a sector field of 0 is taken as decodable.
decode_chs_sector_zero_valid(head, sec_cyl, cyl_lo) ==
    IF head = 255 /\ sec_cyl = 255 /\ cyl_lo = 255
    THEN [valid |-> FALSE, cyl |-> 0, hd |-> 0, sec |-> 0]
    ELSE [valid |-> TRUE, cyl |-> (sec_cyl \div 64) * 256 + cyl_lo, hd |-> head,
          sec |-> sec_cyl % 64]

\* lines 26-34.  sec_cyl & 0x3F is sec_cyl mod 64; (sec_cyl & 0xC0) << 2 is the
\* top two bits of sec_cyl moved to bits 8 and 9, and the | with the 8-bit
\* cyl_lo adds it.
decode_chs(head, sec_cyl, cyl_lo) ==
    IF head = 255 /\ sec_cyl = 255 /\ cyl_lo = 255
    THEN [valid |-> FALSE, cyl |-> 0, hd |-> 0, sec |-> 0]
    ELSE IF sec_cyl % 64 = 0
    THEN [valid |-> FALSE, cyl |-> 0, hd |-> 0, sec |-> 0]
    ELSE [valid |-> TRUE, cyl |-> (sec_cyl \div 64) * 256 + cyl_lo, hd |-> head,
          sec |-> sec_cyl % 64]

\* lines 37-38
chs_to_lba(cyl, head, sec, heads, spt) == ((cyl * heads) + head) * spt + (sec - 1)

\* line 45: entry i (0..3) of the partition table, 16 bytes from 0x1BE + 16 i
entries(mbr_data, i) == SubSeq(mbr_data, 446 + i * 16 + 1, 446 + (i + 1) * 16)

\* An unsigned 32-bit little-endian field (I of the format '<BBBBBBBBII')
unpack_I(e, k) == e[k] + 256 * e[k + 1] + 65536 * e[k + 2] + 16777216 * e[k + 3]

\* lines 58-59: struct.unpack('<BBBBBBBBII', e)
unpack(e) ==
    [boot |-> e[1], begHead |-> e[2], begSecCyl |-> e[3], begCylLo |-> e[4],
     ptype |-> e[5], endHead |-> e[6], endSecCyl |-> e[7], endCylLo |-> e[8],
     lbaStart |-> unpack_I(e, 9), lbaSectors |-> unpack_I(e, 13)]

\* lines 46-52
candidates ==
    << << 255, 63 >>,
       << 240, 63 >>, << 224, 56 >>,
       << 128, 63 >>, << 64, 63 >>, << 32, 63 >>, << 16, 63 >>,
       << 15, 63 >>, << 15, 32 >>,
       << 8, 32 >>, << 4, 32 >> >>

\* lines 62-72: ok after the checks of one entry of non-zero type, from ok before
EntryChecks(f, heads, spt, ok) ==
    LET beg == decode_chs(f.begHead, f.begSecCyl, f.begCylLo)
        end == decode_chs(f.endHead, f.endSecCyl, f.endCylLo)
        ok1 == IF beg.valid /\ chs_to_lba(beg.cyl, beg.hd, beg.sec, heads, spt) # f.lbaStart
               THEN FALSE ELSE ok
    IN  IF end.valid /\ chs_to_lba(end.cyl, end.hd, end.sec, heads, spt)
                           # f.lbaStart + f.lbaSectors - 1
        THEN FALSE ELSE ok1

\* lines 56-74: the loop over the entries from entry i on, with its continue
\* and its break
RECURSIVE EntriesLoop(_, _, _, _)
EntriesLoop(mbr_data, i, heads, spt) ==
    IF i > 3 THEN TRUE
    ELSE IF unpack(entries(mbr_data, i)).ptype = 0
         THEN EntriesLoop(mbr_data, i + 1, heads, spt)
    ELSE IF ~EntryChecks(unpack(entries(mbr_data, i)), heads, spt, TRUE) THEN FALSE
    ELSE EntriesLoop(mbr_data, i + 1, heads, spt)

\* lines 54-76: the candidates that pass, in the order of the list
plausible(mbr_data) ==
    SelectSeq(candidates, LAMBDA c : EntriesLoop(mbr_data, 0, c[1], c[2]))

\* A faulty variant of SortedFirst: the sort is ascending, the smallest comes first.
SortedFirst_smallest(pl) ==
    CHOOSE c \in {pl[k] : k \in DOMAIN pl} :
        \A k \in DOMAIN pl :
            \/ pl[k][2] > c[2]
            \/ (pl[k][2] = c[2] /\ pl[k][1] >= c[1])

\* lines 83-84: the first after sorting by (spt, heads), largest first
SortedFirst(pl) ==
    CHOOSE c \in {pl[k] : k \in DOMAIN pl} :
        \A k \in DOMAIN pl :
            \/ pl[k][2] < c[2]
            \/ (pl[k][2] = c[2] /\ pl[k][1] <= c[1])

\* lines 41-87
calc_geometry_from_mbr(mbr_data, total_bytes) ==
    LET pl == plausible(mbr_data)
        hs == IF pl = << >> THEN << 255, 63 >> ELSE SortedFirst(pl)
    IN  [cylinders |-> ((total_bytes \div SECTOR_SIZE) \div hs[1]) \div hs[2],
         heads |-> hs[1], spt |-> hs[2]]

(***************************************************************************)
(* SpecGeom: calc_geometry_from_mbr applied to the first sector of a disk  *)
(* image whose four partition entries are drawn from PartPool.  The sector *)
(* is built byte by byte from the entries, as a partitioning tool lays it  *)
(* out.                                                                    *)
(***************************************************************************)
\* cylinder, head, sector of a block under a geometry g = <<heads, spt>>, packed
\* as the three CHS bytes of a partition entry
ChsBytes(lba, g) ==
    LET cyl == lba \div (g[1] * g[2])
        head == (lba \div g[2]) % g[1]
        sec == (lba % g[2]) + 1
    IN  << head, sec + 64 * (cyl \div 256), cyl % 256 >>

Undecodable == << 255, 255, 255 >>

\* A partition of count blocks from block start, its CHS fields right under g
Part(g, start, count) ==
    [boot |-> 128, ptype |-> 6, beg |-> ChsBytes(start, g),
     end |-> ChsBytes(start + count - 1, g), start |-> start, count |-> count]

\* The geometries the disks of PartPool were partitioned under
PartGeometries == {<< 255, 63 >>, << 16, 63 >>, << 15, 32 >>, << 4, 32 >>}

PartPool ==
    \* an unused entry, and an unused entry that holds stale, inconsistent fields
    {[boot |-> 0, ptype |-> 0, beg |-> << 0, 0, 0 >>, end |-> << 0, 0, 0 >>,
      start |-> 0, count |-> 0],
     [boot |-> 0, ptype |-> 0, beg |-> << 1, 1, 0 >>, end |-> << 5, 5, 5 >>,
      start |-> 999, count |-> 7]}
    \* a first partition on the second track, under each geometry
    \cup {Part(g, g[2], 100000) : g \in PartGeometries}
    \* the same with the end field, or the start field, not decodable
    \cup {[Part(<< 16, 63 >>, 63, 100000) EXCEPT !.end = Undecodable],
          [Part(<< 16, 63 >>, 63, 100000) EXCEPT !.beg = << 0, 0, 0 >>],
          [Part(<< 255, 63 >>, 63, 100000) EXCEPT !.beg = Undecodable, !.end = << 3, 64, 7 >>]}
    \* a partition whose start CHS fits no candidate
    \cup {[boot |-> 0, ptype |-> 131, beg |-> << 0, 1, 1 >>, end |-> Undecodable,
           start |-> 100, count |-> 5000]}

DiskSizes == {1000, 104857600}

pack_I(n) == << n % 256, (n \div 256) % 256, (n \div 65536) % 256, (n \div 16777216) % 256 >>

PackEntry(q) ==
    << q.boot, q.beg[1], q.beg[2], q.beg[3], q.ptype, q.end[1], q.end[2], q.end[3] >>
        \o pack_I(q.start) \o pack_I(q.count)

\* The first sector: boot code, the four entries from 0x1BE, the signature
PackMbr(parts) ==
    Fill(446, 0) \o PackEntry(parts[1]) \o PackEntry(parts[2]) \o PackEntry(parts[3])
        \o PackEntry(parts[4]) \o << 85, 170 >>

InitGeom ==
    /\ InitSession
    /\ IdleCodec
    /\ IdleObs
    /\ IdleLoop
    /\ enc_in \in [parts : [1..4 -> PartPool], total_bytes : DiskSizes]
    /\ enc_out = NoEnc
    /\ output_file = NoFile

\* line 187: calc_geometry_from_mbr(mbr, total_bytes)
CallCalcGeometry ==
    /\ enc_out.op = "none"
    /\ \E mbr \in {PackMbr(enc_in.parts)} :
          enc_out' = [op |-> "geometry", ok |-> TRUE, bytes |-> << >>,
                      geometry |-> calc_geometry_from_mbr(mbr, enc_in.total_bytes),
                      plausible |-> plausible(mbr)]
    /\ UNCHANGED << sessionVars, codecVars, obs, probe, enc_in, output_file, loopVars >>

NextGeom == CallCalcGeometry

SpecGeom == InitGeom /\ [][NextGeom]_vars

\* The eleven candidate geometries
Candidates ==
    {<< 255, 63 >>, << 240, 63 >>, << 224, 56 >>, << 128, 63 >>, << 64, 63 >>, << 32, 63 >>,
     << 16, 63 >>, << 15, 63 >>, << 15, 32 >>, << 8, 32 >>, << 4, 32 >>}

\* A CHS field that can be decoded: not all 0xFF and its sector field not 0
Decodable(chs) == chs # << 255, 255, 255 >> /\ chs[2] % 64 # 0

\* The block a decodable CHS field names under <<heads, spt>>
FieldLba(chs, g) ==
    (((chs[2] \div 64) * 256 + chs[3]) * g[1] + chs[1]) * g[2] + ((chs[2] % 64) - 1)

\* Every checkable field of every entry of non-zero type agrees with g
Agrees(parts, g) ==
    \A k \in 1..4 :
        parts[k].ptype # 0 =>
            /\ Decodable(parts[k].beg) => FieldLba(parts[k].beg, g) = parts[k].start
            /\ Decodable(parts[k].end) =>
                  FieldLba(parts[k].end, g) = parts[k].start + parts[k].count - 1

\* C20: the geometry returned is one of the 11 candidates and, unless no
\* candidate is accepted, every entry of non-zero type has its decodable start
\* CHS naming its starting LBA and its decodable end CHS naming start+count-1
\* under it; an entry of type 0 or a field that cannot be decoded rejects no
\* candidate: the accepted candidates are exactly those all checkable fields
\* agree with.
C20_Geometry ==
    enc_out.op = "geometry" =>
        LET g == << enc_out.geometry.heads, enc_out.geometry.spt >>
            accepted == {enc_out.plausible[k] : k \in DOMAIN enc_out.plausible}
        IN  /\ g \in Candidates
            /\ accepted = {c \in Candidates : Agrees(enc_in.parts, c)}
            /\ accepted # {} => (g \in accepted /\ Agrees(enc_in.parts, g))

\* A disk partitioned under 16 heads and 63 sectors: a partition with both
\* fields decodable, one with the start field undecodable, an unused entry
\* with stale fields; 16 x 63 is the one candidate accepted and is returned.
C20_Witness ==
    /\ enc_out.op = "geometry"
    /\ enc_in.parts[1] = Part(<< 16, 63 >>, 63, 100000)
    /\ enc_in.parts[2] = [Part(<< 16, 63 >>, 63, 100000) EXCEPT !.beg = << 0, 0, 0 >>]
    /\ enc_in.parts[3].ptype = 0 /\ enc_in.parts[3].start = 999
    /\ enc_out.plausible = << << 16, 63 >> >>
    /\ enc_out.geometry.heads = 16 /\ enc_out.geometry.spt = 63

\* The candidates all checkable fields agree with
AcceptedSet == {c \in Candidates : Agrees(enc_in.parts, c)}

\* c comes no later than g when sorting by sectors per track, then heads,
\* largest first
NotBefore(c, g) == c[2] < g[2] \/ (c[2] = g[2] /\ c[1] <= g[1])

\* No entry has a field that can be checked
NoCheckable ==
    \A k \in 1..4 :
        enc_in.parts[k].ptype # 0 =>
            (~Decodable(enc_in.parts[k].beg) /\ ~Decodable(enc_in.parts[k].end))

\* The table holds one partition, of type 0x06, at LBA 63 with the start CHS
\* cylinder 0, head 1, sector 1; entry k holds it and the others are unused
SingleFirstPartition(k) ==
    /\ enc_in.parts[k].ptype = 6
    /\ enc_in.parts[k].start = 63
    /\ enc_in.parts[k].beg = << 1, 1, 0 >>
    /\ \A j \in 1..4 : j # k => enc_in.parts[j].ptype = 0

ReturnedGeometry == << enc_out.geometry.heads, enc_out.geometry.spt >>

\* The preference among the accepted candidates and the fallback
Preference ==
    /\ AcceptedSet # {} =>
          (ReturnedGeometry \in AcceptedSet
           /\ \A c \in AcceptedSet : NotBefore(c, ReturnedGeometry))
    /\ AcceptedSet = {} => ReturnedGeometry = << 255, 63 >>
    /\ NoCheckable => ReturnedGeometry = << 255, 63 >>

\* C21 as stated: the preference and the fallback, and an MBR with a single
\* type-0x06 partition at LBA 63 with start CHS (0, 1, 1) yields (255,63).
C21_Original ==
    enc_out.op = "geometry" =>
        /\ Preference
        /\ \A k \in 1..4 : SingleFirstPartition(k) => ReturnedGeometry = << 255, 63 >>

\* C21, amended: among the accepted candidates the geometry returned has the
\* largest sectors per track and, among those, the largest head count; with
\* no candidate accepted it is (255,63); so an MBR with no checkable entry
\* yields (255,63), and so does an MBR with a single type-0x06 partition at
\* LBA 63 with start CHS (0, 1, 1) whose end CHS cannot be decoded or agrees
\* with (255,63).
C21_Preference ==
    enc_out.op = "geometry" =>
        /\ Preference
        /\ \A k \in 1..4 :
              (/\ SingleFirstPartition(k)
               /\ (Decodable(enc_in.parts[k].end) =>
                      FieldLba(enc_in.parts[k].end, << 255, 63 >>)
                          = enc_in.parts[k].start + enc_in.parts[k].count - 1))
                 => ReturnedGeometry = << 255, 63 >>

\* A single first partition with the end field undecodable: every candidate
\* of 63 sectors per track with more than one head is accepted, and the one
\* with 255 heads is returned.
C21_Witness ==
    /\ enc_out.op = "geometry"
    /\ SingleFirstPartition(2)
    /\ enc_in.parts[2].end = Undecodable
    /\ Cardinality(AcceptedSet) = 7
    /\ ReturnedGeometry = << 255, 63 >>

(***************************************************************************)
(* tools/mksdcard.py: the IDENTIFY block and the config stream             *)
(***************************************************************************)
\* v & 0xFFFF and (v >> 16) & 0xFFFF of a non-negative v
Low16(v) == v % 65536
High16(v) == (v \div 65536) % 65536

\* line 116: "AO Harddrive".ljust(40), as character codes
model ==
    [k \in 0..39 |->
        IF k < 12 THEN << 65, 79, 32, 72, 97, 114, 100, 100, 114, 105, 118, 101 >>[k + 1]
        ELSE 32]

\* A faulty variant of Mul32: the carry out of the low half is lost.
Mul32_drops_carry(a, m) ==
    [hi |-> ((a \div 65536) * m) % 65536, lo |-> ((a % 65536) * m) % 65536]

\* a * m & 0xFFFFFFFF as its two 16-bit halves (lines 129-130, 132-133, 154-155
\* and 207), for a below 2^31 and m below 2^14.  Python's integers do not
\* overflow; the product is formed from the halves of a so that no
\* intermediate value passes 2^31.
Mul32(a, m) ==
    LET p0 == (a % 65536) * m
    IN  [hi |-> ((p0 \div 65536) + (a \div 65536) * m) % 65536, lo |-> p0 % 65536]

\* A faulty variant of IdentifyCylinders: the cylinder count is not limited.
IdentifyCylinders_unclamped(cyl) == cyl

\* lines 94 and 126: min(16383, cyl)
IdentifyCylinders(cyl) == IF cyl < 16383 THEN cyl ELSE 16383

\* lines 90-157: word i of the array returned
IdentifyWord(i, cyl, heads, spt) ==
    LET total == Mul32(cyl, heads * spt)                             \* line 91
    IN  CASE i = 0 -> 64
          [] i = 1 -> IdentifyCylinders(cyl)
          [] i = 3 -> heads
          [] i = 4 -> Low16(512 * spt)
          [] i = 5 -> 512
          [] i = 6 -> spt
          [] i = 10 -> 65 * 256 + 79
          [] i = 11 -> 72 * 256 + 68
          [] i = 12 -> 48 * 256 + 48
          [] i = 13 -> 48 * 256 + 48
          [] i = 14 -> 48 * 256 + 32
          [] i \in 15..19 -> 32 * 256 + 32
          [] i = 20 -> 3
          [] i = 21 -> 512
          [] i = 22 -> 4
          [] i \in 27..46 -> model[2 * (i - 27)] * 256 + model[2 * (i - 27) + 1]
          [] i = 47 -> 16
          [] i = 48 -> 1
          [] i = 49 -> 512
          [] i = 51 -> 512
          [] i = 52 -> 512
          [] i = 53 -> 7
          [] i = 54 -> IdentifyCylinders(cyl)
          [] i = 55 -> heads
          [] i = 56 -> spt
          [] i = 57 -> total.lo
          [] i = 58 -> total.hi
          [] i = 60 -> total.lo
          [] i = 61 -> total.hi
          [] i \in 65..68 -> 120
          [] i = 80 -> 126
          [] i = 82 -> 16384
          [] i = 83 -> 16384 + 8192 + 4096 + 1024
          [] i = 84 -> 16384
          [] i = 85 -> 16384
          [] i = 86 -> 16384 + 8192 + 4096 + 1024
          [] i = 87 -> 16384
          [] i = 93 -> 1 + 16384 + 8192
          [] i = 100 -> total.lo
          [] i = 101 -> total.hi
          [] OTHER -> 0

\* lines 90-157
build_identify_words(cyl, heads, spt) == [i \in 0..255 |-> IdentifyWord(i, cyl, heads, spt)]

\* A 32-bit value of the stream is held as its two 16-bit halves, the form in
\* which line 198-200 builds the IDENTIFY values; U32(v) is v & 0xFFFFFFFF of
\* a non-negative v.
U32(v) == [hi |-> High16(v), lo |-> Low16(v)]

\* lines 166-180: the CMOS pairs, with equip = 1 | 1 << 2 | 2 << 4
CmosPairs(mem_kb) ==
    << [addr |-> 62464 + 48, val |-> U32(mem_kb % 256)],
       [addr |-> 62464 + 49, val |-> U32((mem_kb \div 256) % 256)],
       [addr |-> 62464 + 20, val |-> U32(1 + 4 + 32)],
       [addr |-> 62464 + 16, val |-> U32(32)],
       [addr |-> 62464 + 13, val |-> U32(128)],
       [addr |-> 62464 + 9, val |-> U32(36)],
       [addr |-> 62464 + 8, val |-> U32(1)],
       [addr |-> 62464 + 7, val |-> U32(1)],
       [addr |-> 62464 + 50, val |-> U32(32)] >>

\* A faulty variant of GeometryPairs: heads and sectors per track change places.
GeometryPairs_swapped(cyl, heads, spt) ==
    << [addr |-> 61441, val |-> U32(cyl)],
       [addr |-> 61443, val |-> U32(spt)],
       [addr |-> 61442, val |-> U32(heads)],
       [addr |-> 61444, val |-> U32(spt * heads)],
       [addr |-> 61445, val |-> Mul32(cyl, spt * heads)] >>

\* lines 189-193
GeometryPairs(cyl, heads, spt) ==
    << [addr |-> 61441, val |-> U32(cyl)],
       [addr |-> 61442, val |-> U32(heads)],
       [addr |-> 61443, val |-> U32(spt)],
       [addr |-> 61444, val |-> U32(spt * heads)],
       [addr |-> 61445, val |-> Mul32(cyl, spt * heads)] >>

\* A faulty variant of IdentifyPair: the even word goes to the high half.
IdentifyPair_swapped(ident, i) ==
    [addr |-> 61440, val |-> [hi |-> Low16(ident[2 * i]), lo |-> Low16(ident[2 * i + 1])]]

\* lines 198-201: pair i of the IDENTIFY block
IdentifyPair(ident, i) ==
    [addr |-> 61440, val |-> [hi |-> Low16(ident[2 * i + 1]), lo |-> Low16(ident[2 * i])]]

\* lines 196-201
IdentifyPairs(ident) == [k \in 1..128 |-> IdentifyPair(ident, k - 1)]

\* lines 206-207: struct.pack('<I', ...) of the address and of the value
PackPair(pr) ==
    pack_I(pr.addr) \o << pr.val.lo % 256, pr.val.lo \div 256, pr.val.hi % 256, pr.val.hi \div 256 >>

\* lines 204-207: the pairs one after the other, 8 bytes each
PackPairs(pairs) ==
    [n \in 1..(8 * Len(pairs)) |-> PackPair(pairs[((n - 1) \div 8) + 1])[((n - 1) % 8) + 1]]

\* A faulty variant of PadToSector: a sector of zeros is always added.
PadToSector_adds_sector(bytes) == bytes \o Fill(SECTOR_SIZE, 0)

\* lines 211-212
PadToSector(bytes) ==
    IF Len(bytes) % SECTOR_SIZE # 0
    THEN bytes \o Fill(SECTOR_SIZE - (Len(bytes) % SECTOR_SIZE), 0)
    ELSE bytes

\* lines 164-201: the pairs, from the geometry line 187 computes
ConfigPairs(mem_kb, geo) ==
    CmosPairs(mem_kb) \o GeometryPairs(geo.cylinders, geo.heads, geo.spt)
        \o IdentifyPairs(build_identify_words(geo.cylinders, geo.heads, geo.spt))

\* lines 160-213, mbr and total_bytes being what lines 183-186 read from the
\* disk image
build_config_stream(mem_kb, mbr, total_bytes) ==
    PadToSector(PackPairs(ConfigPairs(mem_kb, calc_geometry_from_mbr(mbr, total_bytes)))
                    \o pack_I(0))

\* line 227: mem_kb = int(mem_mb-1) * 1024
MemKb(mem_mb) == (mem_mb - 1) * 1024

(***************************************************************************)
(* SpecConfig: build_config_stream applied to memory sizes about the       *)
(* default and about 64MB and to disk images of three partition tables and *)
(* three sizes, and build_identify_words applied to geometries with        *)
(* cylinder counts about the limit of 16383 and one of a 2.2TB disk.       *)
(***************************************************************************)
Unused == [boot |-> 0, ptype |-> 0, beg |-> << 0, 0, 0 >>, end |-> << 0, 0, 0 >>,
           start |-> 0, count |-> 0]

ConfigTables ==
    {<< Unused, Unused, Unused, Unused >>}
    \cup {<< Part(g, g[2], 100000), Unused, Unused, Unused >> : g \in {<< 16, 63 >>, << 4, 32 >>}}

ConfigDiskSizes == {1000, 104857600, 2147483647}

MemSizes == {1, 2, 16, 64, 65}

IdentifyGeometries ==
    [cylinders : {0, 1, 16383, 16384, 40000, 33570815}, heads : {255, 16, 4},
     spt : {63, 32}]

InitConfig ==
    /\ InitSession
    /\ IdleCodec
    /\ IdleObs
    /\ IdleLoop
    /\ enc_in \in [mem_mb : MemSizes, parts : ConfigTables, total_bytes : ConfigDiskSizes,
                   geom : IdentifyGeometries]
    /\ enc_out = NoEnc
    /\ output_file = NoFile

\* line 282: cfg = build_config_stream(mem_kb, hdd_file); ident is the array
\* line 196 builds on the way
CallBuildConfigStream ==
    /\ enc_out.op = "none"
    /\ \E mbr \in {PackMbr(enc_in.parts)} :
        \E geo \in {calc_geometry_from_mbr(mbr, enc_in.total_bytes)} :
          enc_out' = [op |-> "config", ok |-> TRUE,
                      bytes |-> build_config_stream(MemKb(enc_in.mem_mb), mbr, enc_in.total_bytes),
                      geometry |-> geo,
                      ident |-> build_identify_words(geo.cylinders, geo.heads, geo.spt)]
    /\ UNCHANGED << sessionVars, codecVars, obs, probe, enc_in, output_file, loopVars >>

\* lines 189-196: the geometry pairs and the IDENTIFY array of a geometry
CallBuildIdentifyWords ==
    /\ enc_out.op = "none"
    /\ enc_out' = [op |-> "identify", ok |-> TRUE, bytes |-> << >>,
                   geometry |-> enc_in.geom,
                   pairs |-> GeometryPairs(enc_in.geom.cylinders, enc_in.geom.heads,
                                           enc_in.geom.spt),
                   ident |-> build_identify_words(enc_in.geom.cylinders, enc_in.geom.heads,
                                                  enc_in.geom.spt)]
    /\ UNCHANGED << sessionVars, codecVars, obs, probe, enc_in, output_file, loopVars >>

NextConfig == CallBuildConfigStream \/ CallBuildIdentifyWords

SpecConfig == InitConfig /\ [][NextConfig]_vars

\* The stream read back as the device reads it: pair k (from 0) is the 8
\* bytes from offset 8k, a little-endian address and a little-endian value
PairAddr(bytes, k) ==
    bytes[8 * k + 1] + 256 * bytes[8 * k + 2] + 65536 * bytes[8 * k + 3]
        + 16777216 * bytes[8 * k + 4]

PairLow(bytes, k) == bytes[8 * k + 5] + 256 * bytes[8 * k + 6]

PairHigh(bytes, k) == bytes[8 * k + 7] + 256 * bytes[8 * k + 8]

\* The index of the first pair whose address is 0
Terminator(bytes) ==
    CHOOSE k \in 0..((Len(bytes) \div 8) - 1) :
        /\ PairAddr(bytes, k) = 0
        /\ \A j \in 0..(k - 1) : PairAddr(bytes, j) # 0

HasTerminator(bytes) == \E k \in 0..((Len(bytes) \div 8) - 1) : PairAddr(bytes, k) = 0

\* The addresses of the pairs before the terminator, in stream order
Addresses(bytes) == [k \in 1..Terminator(bytes) |-> PairAddr(bytes, k - 1)]

\* C22 as stated: the addresses are 0xF430, 0xF431; 0xF414; 0xF408, 0xF409,
\* 0xF407, 0xF432; 0xF410; 0xF001..0xF005; then 128 times 0xF000, and no other.
C22_Original ==
    enc_out.op = "config" =>
        /\ HasTerminator(enc_out.bytes)
        /\ Addresses(enc_out.bytes) =
              << 62512, 62513, 62484, 62472, 62473, 62471, 62514, 62480,
                 61441, 61442, 61443, 61444, 61445 >> \o Fill(128, 61440)

\* C22, amended: the pairs appear in exactly this address order: 0xF430,
\* 0xF431 (extended memory); 0xF414 (equipment); 0xF410 (floppy type); 0xF40D
\* (battery status); 0xF409, 0xF408, 0xF407, 0xF432 (year, month, day,
\* century); 0xF001..0xF005 (geometry); then 128 IDENTIFY writes to 0xF000; no
\* pair before the terminator targets another address.
C22_AddressOrder ==
    enc_out.op = "config" =>
        /\ HasTerminator(enc_out.bytes)
        /\ Addresses(enc_out.bytes) =
              << 62512, 62513, 62484, 62480, 62477, 62473, 62472, 62471, 62514,
                 61441, 61442, 61443, 61444, 61445 >> \o Fill(128, 61440)
        /\ PairLow(enc_out.bytes, 10) = enc_out.geometry.heads
        /\ PairLow(enc_out.bytes, 11) = enc_out.geometry.spt

\* The stream of a disk of 16 heads and 63 sectors per track
C22_Witness ==
    /\ enc_out.op = "config"
    /\ enc_out.geometry.heads = 16
    /\ Terminator(enc_out.bytes) = 142
    /\ PairAddr(enc_out.bytes, 4) = 62477
    /\ PairAddr(enc_out.bytes, 10) = 61442 /\ PairLow(enc_out.bytes, 10) = 16

\* C23: the stream's length is a multiple of 512, always 1536 bytes (three
\* sectors); the first pair whose address is 0 is the terminator, directly
\* after the 128th IDENTIFY pair; every byte from the terminator's address on
\* is zero.
C23_Termination ==
    enc_out.op = "config" =>
        /\ Len(enc_out.bytes) % 512 = 0
        /\ Len(enc_out.bytes) = 1536
        /\ Len(enc_out.bytes) = ConfigStreamLen
        /\ HasTerminator(enc_out.bytes)
        /\ LET term == Terminator(enc_out.bytes)
           IN  /\ term >= 129
               /\ \A k \in (term - 128)..(term - 1) : PairAddr(enc_out.bytes, k) = 61440
               /\ PairAddr(enc_out.bytes, term - 129) # 61440
               /\ \A n \in (8 * term + 1)..Len(enc_out.bytes) : enc_out.bytes[n] = 0

\* The stream for 64MB on the largest disk: its last IDENTIFY pair is followed
\* by zeros to the end of the third sector.
C23_Witness ==
    /\ enc_out.op = "config"
    /\ enc_in.mem_mb = 64
    /\ enc_in.total_bytes = 2147483647
    /\ PairAddr(enc_out.bytes, 141) = 61440
    /\ PairAddr(enc_out.bytes, 142) = 0
    /\ Len(enc_out.bytes) = 1536

\* C24: IDENTIFY pair i (0..127) has address 0xF000 and the value word[2i] |
\* word[2i+1] << 16: the low and high halves of the 128 values, in stream order,
\* are the 256 words of the IDENTIFY array.
C24_IdentifyPairs ==
    enc_out.op = "config" =>
        \A i \in 0..127 :
            /\ PairAddr(enc_out.bytes, 14 + i) = 61440
            /\ PairLow(enc_out.bytes, 14 + i) = enc_out.ident[2 * i]
            /\ PairHigh(enc_out.bytes, 14 + i) = enc_out.ident[2 * i + 1]

\* Pair 28 of the block holds words 56 and 57, sectors per track and the low
\* half of the sector count, here above 32767
C24_Witness ==
    /\ enc_out.op = "config"
    /\ PairLow(enc_out.bytes, 14 + 28) = 63
    /\ PairHigh(enc_out.bytes, 14 + 28) > 32767
    /\ PairHigh(enc_out.bytes, 14 + 28) = enc_out.ident[57]

\* C25: in the IDENTIFY block of every geometry words 1 and 54 are
\* min(cylinders, 16383), words 3 and 55 the heads, words 6 and 56 the sectors
\* per track, and each of the 256 words is within 0..65535.
C25_IdentifyWords ==
    enc_out.op \in {"identify", "config"} =>
        LET cyl == enc_out.geometry.cylinders
            clamped == IF cyl > 16383 THEN 16383 ELSE cyl
        IN  /\ DOMAIN enc_out.ident = 0..255
            /\ enc_out.ident[1] = clamped /\ enc_out.ident[54] = clamped
            /\ enc_out.ident[3] = enc_out.geometry.heads
            /\ enc_out.ident[55] = enc_out.geometry.heads
            /\ enc_out.ident[6] = enc_out.geometry.spt
            /\ enc_out.ident[56] = enc_out.geometry.spt
            /\ \A i \in 0..255 : enc_out.ident[i] \in 0..65535

\* A geometry of 40000 cylinders: the cylinder words hold 16383
C25_Witness ==
    /\ enc_out.op = "identify"
    /\ enc_out.geometry = [cylinders |-> 40000, heads |-> 255, spt |-> 63]
    /\ enc_out.ident[1] = 16383 /\ enc_out.ident[54] = 16383

\* C30 as stated: for every mem_mb >= 1 the values written to 0xF430 and
\* 0xF431 recombine as lo | (hi << 8) to (mem_mb - 1) * 1024.
C30_Original ==
    enc_out.op = "config" =>
        /\ PairAddr(enc_out.bytes, 0) = 62512
        /\ PairAddr(enc_out.bytes, 1) = 62513
        /\ PairLow(enc_out.bytes, 0) + 256 * PairLow(enc_out.bytes, 1)
              = (enc_in.mem_mb - 1) * 1024

\* 65MB: 65536 KB of extended memory are written as 0, 0.
C30_Witness ==
    /\ enc_out.op = "config"
    /\ enc_in.mem_mb = 65
    /\ PairLow(enc_out.bytes, 0) = 0 /\ PairHigh(enc_out.bytes, 0) = 0
    /\ PairLow(enc_out.bytes, 1) = 0 /\ PairHigh(enc_out.bytes, 1) = 0

(***************************************************************************)
(* The session loop of run_interactive (lines 284-383).  One iteration     *)
(* handles the input events pygame has queued, then reads the UART until a *)
(* read returns nothing, then draws the status and starts over.  The user  *)
(* and the device are the environment: the user queues input events, the   *)
(* device sends bytes, both at any moment.                                 *)
(***************************************************************************)
\* The locals the event handlers touch, and the writes they make.
Handlers ==
    [ buttons |-> buttons, captured |-> captured, running |-> running,
      written |-> << >> ]

\* A faulty variant of send_sc: like send_mouse, nothing is written for no bytes.
send_sc_skips_empty(h, sc_bytes) ==
    IF sc_bytes = << >> THEN h
    ELSE [h EXCEPT !.written = Append(@, build_scancode_frame(sc_bytes).bytes)]

\* lines 184-185
send_sc(h, sc_bytes) ==
    [h EXCEPT !.written = Append(@, build_scancode_frame(sc_bytes).bytes)]

\* A faulty variant of send_mouse: reports are sent only while streaming is enabled.
send_mouse_when_streaming(h, mouse_bytes) ==
    IF mouse_bytes = << >> \/ ~streaming_enabled THEN h
    ELSE [h EXCEPT !.written = Append(@, build_mouse_frame(mouse_bytes).bytes)]

\* lines 186-189
send_mouse(h, mouse_bytes) ==
    IF mouse_bytes = << >> THEN h
    ELSE [h EXCEPT !.written = Append(@, build_mouse_frame(mouse_bytes).bytes)]

\* lines 272-281: captured = on
set_capture(h, on) == [h EXCEPT !.captured = on]

\* lines 293-296, 301-304: the bit of buttons that button b stands for, 0 if none
ButtonBit(b) == IF b = 1 THEN 1 ELSE IF b = 3 THEN 2 ELSE IF b = 2 THEN 4 ELSE 0

\* buttons |= bit
SetBit(v, bit) == IF bit = 0 \/ BitAnd(v, bit) # 0 THEN v ELSE v + bit

\* buttons &= ~bit
ClearBit(v, bit) == IF bit = 0 \/ BitAnd(v, bit) = 0 THEN v ELSE v - bit

\* lines 386-452, for the keys the user of this model has; any other key code
\* is not in the mapping and gives None
pygame_key_to_name(k) ==
    CASE k = "K_PAUSE" -> "pause"
      [] k = "K_ESCAPE" -> "esc"
      [] OTHER -> "None"

\* lines 313-325
KeyEvent(h, ev) ==
    LET name == pygame_key_to_name(ev.key)
        pressed == ev.type = "KEYDOWN"
    IN IF ev.type = "KEYDOWN" /\ ev.key = "K_ESCAPE" /\ ev.gui
       THEN set_capture(h, FALSE)
       ELSE IF name = "None" THEN h
       ELSE send_sc(h, expand_keys_to_scancodes(<< name >>, pressed).bytes)

\* lines 285-325: the body of the for loop, for one event
HandleEvent(h, ev) ==
    IF ev.type = "QUIT" THEN [h EXCEPT !.running = FALSE]
    ELSE IF ev.type = "MOUSEBUTTONDOWN"
         THEN IF ~h.captured THEN set_capture(h, TRUE)
              ELSE LET b == SetBit(h.buttons, ButtonBit(ev.button))
                   IN send_mouse([h EXCEPT !.buttons = b], ps2_mouse_packet(0, 0, b))
    ELSE IF ev.type = "MOUSEBUTTONUP" /\ h.captured
         THEN LET b == ClearBit(h.buttons, ButtonBit(ev.button))
              IN send_mouse([h EXCEPT !.buttons = b], ps2_mouse_packet(0, 0, b))
    ELSE IF ev.type = "MOUSEMOTION" /\ h.captured
         THEN send_mouse(h, ps2_mouse_packet(ev.rel[1], ev.rel[2], h.buttons))
    ELSE IF ev.type \in {"KEYDOWN", "KEYUP"} THEN KeyEvent(h, ev)
    ELSE h

\* line 285: for ev in pygame.event.get()
RECURSIVE EventsLoop(_, _)
EventsLoop(h, evs) ==
    IF evs = << >> THEN h ELSE EventsLoop(HandleEvent(h, Head(evs)), Tail(evs))

\* lines 285-325: the queued events are taken and handled, oldest first; the
\* loop goes on to the UART.
HandleEvents ==
    /\ pc = "events"
    /\ \E h \in {EventsLoop(Handlers, events)} :
          /\ buttons' = h.buttons
          /\ captured' = h.captured
          /\ running' = h.running
          /\ written' = h.written
    /\ events' = << >>
    /\ emitted' = << >>
    /\ disp' = << >>
    /\ pc' = "poll"
    /\ UNCHANGED << ps2_id, rate_seq, expect_value_for, streaming_enabled,
                    rx_buf, rx_state, rx_len, rx_payload, data,
                    codecVars, obs, probe, encVars, output_file >>

\* lines 328-331 and 374-383: ser.read(256) returns nothing; the poll loop ends,
\* the status is drawn, and the session loop starts over or, after QUIT, ends.
ReadNothing ==
    /\ pc = "poll"
    /\ wire = << >>
    /\ data' = << >>
    /\ written' = << >>
    /\ emitted' = << >>
    /\ disp' = << >>
    /\ pc' = IF running THEN "events" ELSE "closed"
    /\ UNCHANGED << ps2_id, rate_seq, expect_value_for, streaming_enabled,
                    rx_buf, rx_state, rx_len, rx_payload,
                    codecVars, obs, probe, encVars, output_file,
                    events, buttons, captured, running >>

\* lines 328-372: ser.read(256) returns what has arrived, at most 256 bytes; it
\* is parsed and the poll loop reads again.
ReadSome ==
    /\ pc = "poll"
    /\ wire # << >>
    /\ \E n \in {Min(READ_SIZE, Len(wire))} :
          /\ Poll(SubSeq(wire, 1, n))
          /\ wire' = Drop(wire, n)
    /\ UNCHANGED << sent, decoded, bytewise, obs, probe, encVars, output_file,
                    loopVars >>

\* How much the user and the device may have pending.
MaxEvents == 1
MaxWire == 5

NoEvent == [type |-> "NOEVENT", button |-> 0, rel |-> << 0, 0 >>, key |-> "", gui |-> FALSE]

\* What the user does: presses and releases the left button, moves the mouse,
\* presses and releases Pause, presses GUI+ESC and a key pygame_key_to_name
\* does not know, and closes the window.
UserEvents ==
    { [NoEvent EXCEPT !.type = "MOUSEBUTTONDOWN", !.button = 1],
      [NoEvent EXCEPT !.type = "MOUSEBUTTONUP", !.button = 1],
      [NoEvent EXCEPT !.type = "MOUSEMOTION", !.rel = << 5, -3 >>],
      [NoEvent EXCEPT !.type = "KEYDOWN", !.key = "K_PAUSE"],
      [NoEvent EXCEPT !.type = "KEYUP", !.key = "K_PAUSE"],
      [NoEvent EXCEPT !.type = "KEYDOWN", !.key = "K_ESCAPE", !.gui = TRUE],
      [NoEvent EXCEPT !.type = "KEYDOWN", !.key = "K_MENU"],
      [NoEvent EXCEPT !.type = "QUIT"] }

\* What the device sends in one piece: Enable to the mouse (type 0x06),
\* a type-0x06 frame without a byte, a debug frame (type 0x07) and a
\* frame of an unused type whose body is the Enable command, a frame of length
\* zero, and a byte that is no marker.
DevicePieces ==
    { << MARKER, 0, 2, RTYPE_HOST_TO_MOUSE, 244 >>,
      << MARKER, 0, 1, RTYPE_HOST_TO_MOUSE >>,
      << MARKER, 0, 2, RTYPE_DEBUG, 244 >>,
      << MARKER, 0, 2, 9, 244 >>,
      << MARKER, 0, 0 >>,
      << 85 >> }

\* The user does something: pygame queues the event.  The queue is read at
\* pygame.event.get() only, so an event made while the UART is read is taken as
\* made right before the next pygame.event.get().
UserInput(ev) ==
    /\ pc = "events"
    /\ Len(events) < MaxEvents
    /\ events' = Append(events, ev)
    /\ written' = << >>
    /\ emitted' = << >>
    /\ disp' = << >>
    /\ UNCHANGED << ps2_id, rate_seq, expect_value_for, streaming_enabled,
                    rx_buf, rx_state, rx_len, rx_payload, data,
                    codecVars, obs, probe, encVars, output_file,
                    pc, buttons, captured, running >>

\* The device sends bytes: they wait in the serial port until they are read.
DeviceSend(piece) ==
    /\ pc # "closed"
    /\ Len(wire) + Len(piece) <= MaxWire
    /\ wire' = wire \o piece
    /\ written' = << >>
    /\ emitted' = << >>
    /\ disp' = << >>
    /\ UNCHANGED << ps2_id, rate_seq, expect_value_for, streaming_enabled,
                    rx_buf, rx_state, rx_len, rx_payload, data,
                    sent, decoded, bytewise, obs, probe, encVars, output_file,
                    loopVars >>

NextLoop ==
    \/ HandleEvents
    \/ ReadNothing
    \/ ReadSome
    \/ \E ev \in UserEvents : UserInput(ev)
    \/ \E piece \in DevicePieces : DeviceSend(piece)

SpecLoop == Init /\ [][NextLoop]_vars

\* A step of the loop itself; at every position of the loop exactly one is possible.
LoopStep == HandleEvents \/ ReadNothing \/ ReadSome

\* The loop is one thread that nothing suspends: its next step is taken.
\* Nothing is assumed of the user or the device.
SpecLoopFair == SpecLoop /\ WF_vars(LoopStep)

(***************************************************************************)
(* Claims about the session loop, under SpecLoop                           *)
(***************************************************************************)
\* The bytes of the type-0x06 frames among fs, in order.
RECURSIVE HostToMouseBytes(_)
HostToMouseBytes(fs) ==
    IF fs = << >> THEN << >>
    ELSE (IF Head(fs).rtype = 6 THEN Head(fs).body ELSE << >>)
             \o HostToMouseBytes(Tail(fs))

\* A frame that carries one reply byte of the mouse: AA 00 02 0E r.
IsReplyFrame(f) == Len(f) = 5 /\ SubSeq(f, 1, 4) = << 170, 0, 2, 14 >>

\* C28: MouseDeviceState (device id, sample-rate history, pending command,
\* streaming flag) changes only while a byte of a type-0x06 frame is being
\* dispatched.  The bytes handed to the emulator in a step are exactly the
\* bytes of the type-0x06 frames read in it; a step that reads no such byte
\* (key and mouse events being transmitted, a debug frame or a frame of another
\* type being received, garbage or a zero-length frame being discarded) leaves
\* the device state as it was and writes no reply frame.
C28_DeviceState ==
    [][ /\ [i \in DOMAIN disp' |-> disp'[i].b] = HostToMouseBytes(emitted')
        /\ emitted' # << >> => pc = "poll" /\ wire # << >>
        /\ HostToMouseBytes(emitted') = << >> =>
              /\ ps2_id' = ps2_id
              /\ rate_seq' = rate_seq
              /\ expect_value_for' = expect_value_for
              /\ streaming_enabled' = streaming_enabled
              /\ \A i \in DOMAIN written' : ~IsReplyFrame(written'[i]) ]_vars

\* With the mouse captured, a frame of the unused type 0x09 whose body is the
\* Enable command has been read: nothing was written and streaming is still off.
C28_Witness ==
    /\ pc = "poll"
    /\ captured
    /\ data = << 170, 0, 2, 9, 244 >>
    /\ emitted = << [rtype |-> 9, body |-> << 244 >>] >>
    /\ disp = << >>
    /\ written = << >>
    /\ ~streaming_enabled

\* C26 as stated: whatever the device sends, the inbound drain ends and control
\* returns to input-event processing.
C26_Original == (pc = "poll") ~> (pc # "poll")

\* The loop is reading the UART: the last read returned a debug frame and the
\* next bytes have arrived already.
C26_Witness ==
    /\ pc = "poll"
    /\ data = << 170, 0, 2, 7, 244 >>
    /\ rx_buf = << >>
    /\ wire # << >>

PauseDown == [NoEvent EXCEPT !.type = "KEYDOWN", !.key = "K_PAUSE"]
PauseUp == [NoEvent EXCEPT !.type = "KEYUP", !.key = "K_PAUSE"]

\* C31: the break of Pause is the table's explicit empty one, so a Pause key-up
\* transmits no scancode byte: the frame written for it carries the type byte
\* only (AA 00 01 0C), while a Pause key-down transmits the 8 bytes of its make
\* sequence.
C31_PauseKey ==
    [][ /\ ~_get_make_break("pause").none
        /\ _get_make_break("pause").brk = << >>
        /\ (/\ pc = "events"
            /\ pc' = "poll"
            /\ events # << >>
            /\ \A i \in DOMAIN events : events[i] \in {PauseDown, PauseUp})
           => written' =
                 [i \in DOMAIN events |->
                     IF events[i] = PauseUp
                     THEN << 170, 0, 1, 12 >>
                     ELSE << 170, 0, 9, 12, 225, 20, 119, 225, 240, 20, 224, 119 >>] ]_vars

\* A Pause key-up has been handled: one frame was written, without a scancode.
C31_Witness ==
    /\ pc = "poll"
    /\ events = << >>
    /\ written = << << 170, 0, 1, 12 >> >>

\* The session with the streaming flag the other way.
Flipped == [Session EXCEPT !.streaming_enabled = ~@]

\* Two sessions agree on everything but the streaming flag: on what they wrote,
\* on the rest of the device state and on the state of the frame reader.
SameButStreaming(a, b) ==
    [a EXCEPT !.streaming_enabled = FALSE, !.disp = << >>]
        = [b EXCEPT !.streaming_enabled = FALSE, !.disp = << >>]

\* Inbound bytes to try on both sessions: every byte as a command, and every
\* byte as the argument of Set Sample Rate and of Set Resolution.
BothBodies ==
    {<< b >> : b \in Byte} \cup {<< c, b >> : c \in {243, 232}, b \in Byte}

\* A frame that carries a 3-byte mouse report: AA 00 04 0E b0 x y.
IsReportFrame(f) == Len(f) = 7 /\ SubSeq(f, 1, 4) = << 170, 0, 4, 14 >>

\* C33: the streaming flag has no influence on anything transmitted.  A session
\* and the session that differs from it in the streaming flag only, given the
\* same inbound bytes, write the same frames and agree afterwards on everything
\* but the flag: for the bytes the device sends, and at the start of a drain
\* for every byte as a command and as an argument.  The event handlers do not
\* read the flag: with the mouse captured every motion and button event is
\* reported, with streaming on or off.
C33_StreamingUnobservable ==
    /\ [](  (/\ pc = "poll" /\ wire = << >> /\ data = << >>
             /\ written = << >> /\ buttons = 0 /\ ~captured /\ running)
            => \A body \in BothBodies :
                  SameButStreaming(OnData(Session, HostToMouseFrame(body)),
                                   OnData(Flipped, HostToMouseFrame(body))) )
    /\ [][ /\ (pc = "poll" /\ pc' = "poll" /\ Len(wire') < Len(wire))
              => SameButStreaming(OnData(Flipped, data'),
                                  [OnData(Session, data') EXCEPT
                                      !.written = written',
                                      !.ps2_id = ps2_id',
                                      !.rate_seq = rate_seq',
                                      !.expect_value_for = expect_value_for',
                                      !.rx_buf = rx_buf',
                                      !.rx_state = rx_state',
                                      !.rx_len = rx_len',
                                      !.rx_payload = rx_payload',
                                      !.emitted = emitted'])
           /\ (/\ pc = "events"
               /\ pc' = "poll"
               /\ captured
               /\ \A i \in DOMAIN events :
                     events[i].type \in {"MOUSEBUTTONDOWN", "MOUSEBUTTONUP", "MOUSEMOTION"})
              => /\ Len(written') = Len(events)
                 /\ \A i \in DOMAIN written' : IsReportFrame(written'[i]) ]_vars

\* With streaming disabled and the left button held, a mouse motion has been
\* reported.
C33_Witness ==
    /\ pc = "poll"
    /\ ~streaming_enabled
    /\ captured
    /\ buttons = 1
    /\ written = << build_mouse_frame(ps2_mouse_packet(5, -3, 1)).bytes >>

(***************************************************************************)
(* Claims about the sector counts of the configuration, under SpecConfig   *)
(***************************************************************************)
\* Arithmetic modulo 2^32 on values held as two 16-bit halves.
Add32(x, y) ==
    [hi |-> (x.hi + y.hi + ((x.lo + y.lo) \div 65536)) % 65536,
     lo |-> (x.lo + y.lo) % 65536]

Double32(x) == Add32(x, x)

\* x * m modulo 2^32, by doubling
RECURSIVE Times32(_, _)
Times32(x, m) ==
    IF m = 0 THEN [hi |-> 0, lo |-> 0]
    ELSE Add32(IF m % 2 = 1 THEN x ELSE [hi |-> 0, lo |-> 0],
               Times32(Double32(x), m \div 2))

\* cylinders * heads * spt modulo 2^32 of the geometry of the call
SectorCount ==
    Times32(U32(enc_out.geometry.cylinders), enc_out.geometry.heads * enc_out.geometry.spt)

\* Words lo and lo + 1 of the IDENTIFY array hold the sector count.
HoldsCount(lo) ==
    /\ enc_out.ident[lo] = SectorCount.lo
    /\ enc_out.ident[lo + 1] = SectorCount.hi

\* The value written to register 0xF005 is the sector count.
RegisterHoldsCount ==
    /\ enc_out.op = "identify" =>
          enc_out.pairs[5] = [addr |-> 61445, val |-> SectorCount]
    /\ enc_out.op = "config" =>
          /\ PairAddr(enc_out.bytes, 13) = 61445
          /\ PairLow(enc_out.bytes, 13) = SectorCount.lo
          /\ PairHigh(enc_out.bytes, 13) = SectorCount.hi

\* The sector count equals word54 * word55 * word56.
EqualsChsProduct ==
    SectorCount = U32(enc_out.ident[54] * enc_out.ident[55] * enc_out.ident[56])

\* What the cylinders above 16383 add to the sector count, modulo 2^32
ExcessCount ==
    Times32(U32(enc_out.geometry.cylinders - 16383),
            enc_out.geometry.heads * enc_out.geometry.spt)

\* C34 as stated: words 57/58, 60/61 and 100/101 and register 0xF005 hold
\* cylinders * heads * spt modulo 2^32, and this equals word54 * word55 *
\* word56 only while cylinders <= 16383.
C34_Original ==
    enc_out.op \in {"identify", "config"} =>
        /\ HoldsCount(57) /\ HoldsCount(60) /\ HoldsCount(100)
        /\ RegisterHoldsCount
        /\ EqualsChsProduct <=> enc_out.geometry.cylinders <= 16383

\* C34: words 57/58, 60/61 and 100/101 all hold the low and high 16 bits of
\* cylinders * heads * spt, taken from the unclamped cylinder count modulo
\* 2^32, which is also the value written to register 0xF005.  It equals
\* word54 * word55 * word56 while cylinders <= 16383; above, it equals that
\* product exactly when (cylinders - 16383) * heads * spt is a multiple of 2^32.
C34_SectorCount ==
    enc_out.op \in {"identify", "config"} =>
        /\ HoldsCount(57) /\ HoldsCount(60) /\ HoldsCount(100)
        /\ RegisterHoldsCount
        /\ enc_out.geometry.cylinders <= 16383 => EqualsChsProduct
        /\ enc_out.geometry.cylinders > 16383 =>
              (EqualsChsProduct <=> ExcessCount = [hi |-> 0, lo |-> 0])

\* A disk of 33570815 cylinders, 4 heads and 32 sectors per track: its
\* 2^32 + 16383 * 128 sectors are written as 16383 * 128, the product of the
\* words 54, 55 and 56.
C34_Witness ==
    /\ enc_out.op = "identify"
    /\ enc_out.geometry = [cylinders |-> 33570815, heads |-> 4, spt |-> 32]
    /\ enc_out.ident[54] = 16383
    /\ enc_out.ident[57] = 65408 /\ enc_out.ident[58] = 31
    /\ enc_out.pairs[5].val = [hi |-> 31, lo |-> 65408]

====
